---- MODULE Spec2Model ----
(***************************************************************************)
(* A state-machine model of PersikTunes (src/persiktunes): the Queue, the  *)
(* NodePool / Node lifecycle and the per-guild Player.                     *)
(*                                                                         *)
(* Modelling conventions                                                   *)
(*  - Every handler is translated statement by statement.  An `await` on   *)
(*    the network (REST request, websocket handshake, voice signalling)    *)
(*    splits the handler into steps; the code between two awaits is one    *)
(*    atomic action (single cooperative event loop).                       *)
(*  - Python exceptions are results: the name of the exception class is    *)
(*    recorded as the outcome of the call.                                 *)
(*  - None is the string "None".                                           *)
(***************************************************************************)
EXTENDS Integers, Sequences, FiniteSets, TLC

None == "None"

(***************************************************************************)
(* Tracks.  models/restapi.py Track: equality is by the `uuid` field,      *)
(* whose default value is computed once, when the class is defined, so     *)
(* every Track built without an explicit uuid carries the same uuid.       *)
(***************************************************************************)
Tracks == {"a", "b", "c"}

\* Track.uuid: "a" and "b" are built without a uuid (the shared class-level
\* default), "c" is built with an explicit one.
TrackUuid(t) == IF t \in {"a", "b"} THEN "uuid-default" ELSE "uuid-c"

\* Track.__eq__: False for a non-Track (None), else equality of the uuids.
TrackEq(x, y) == x # None /\ y # None /\ TrackUuid(x) = TrackUuid(y)

\* Track.info.length of each track (milliseconds, scaled down).
TrackLength(t) == IF t = "a" THEN 1 ELSE 2

\* Track.encoded is the node's opaque payload; non-empty for every track.
TrackEncoded(t) == "enc-" \o t

(***************************************************************************)
(* Bounds                                                                  *)
(***************************************************************************)
MaxQueue == 3

\* Longest list handed to put_list and extend.
MaxList == 2

\* Node objects that can be constructed in one run.
MaxNodes == 3
MaxCount == 5

(***************************************************************************)
(* State                                                                   *)
(***************************************************************************)
VARIABLES
    q_queue,      \* Queue._queue
    q_current,    \* Queue._current_item
    q_loop,       \* Queue._loop_mode: None, "track" or "queue"
    q_cfg,        \* Queue constructor arguments: max_size, overflow, return_exceptions
    q_ret,        \* outcome of the last Queue call: [op, arg, val]
    q_script,     \* observer: progress of put(a);put(b);put(c);next()x4 and its results
    pool,         \* NodePool._nodes: the registered Node objects, in insertion order
    node,         \* the Node objects (each with its LavalinkWebsocket), by object id
    pool_ret,     \* outcome of the last NodePool call: [op, arg, val]
    player,       \* the Player objects, by guild id
    p_ret,        \* outcome of the last Player call or handler that completed
    l_listen,     \* the listen task of node 1 and what its socket holds
    l_ready,      \* the event loop's queue of tasks ready to run, oldest first
    l_task,       \* the tasks the listen task has created, by task id
    l_log         \* observer: what the listen task and its tasks have done

qvars == <<q_queue, q_current, q_loop, q_cfg, q_ret, q_script>>

nvars == <<pool, node, pool_ret>>

pvars == <<player, p_ret>>

\* everything but the Queue
nonqvars == <<pool, node, pool_ret, player, p_ret>>

lvars == <<l_listen, l_ready, l_task, l_log>>

vars == <<q_queue, q_current, q_loop, q_cfg, q_ret, q_script, pool, node, pool_ret,
          player, p_ret, l_listen, l_ready, l_task, l_log>>

\* Bound: the tasks created by the listen task that exist at one time.
MaxTasks == 4

TaskIds == 1..MaxTasks

\* the listen task itself in the queue of ready tasks
ListenTask == 0

NoFrame == [op |-> "none", type |-> None, sid |-> None, pos |-> 0, time |-> 0]

\* no task; guild and current are the locals of a node switch
NoTask ==
    [kind |-> "none", pc |-> "none", frame |-> NoFrame, n |-> 0, guild |-> None,
     current |-> FALSE]

\* no frame handled yet
NoLast ==
    [op |-> "none", type |-> None, pos |-> 0, time |-> 0, registered |-> FALSE,
     forwarded |-> FALSE, raised |-> None]

NoLog ==
    [started |-> << >>,   \* the frames whose handler has started, in that order
     raised  |-> None,    \* the exception that last ended a task or the listen task
     lost    |-> FALSE,   \* the connection-loss handler has run
     live    |-> {},      \* the players registered when it last ran
     called  |-> {},      \* those of them whose destroy() has started since
     attempt |-> "none",  \* the last reconnect attempt: created, started, failed, ok
     last    |-> NoLast]  \* the frame last handled, whether its guild had a player
                          \* in the node's map, and how the handler left its start

\* no listen task
NoListen ==
    [pc |-> "none", inbox |-> << >>, arrived |-> 0, losses |-> 0, loops |-> 0,
     resume_key |-> FALSE, fallback |-> FALSE]

ListenVarsInit ==
    /\ l_listen = NoListen
    /\ l_ready = << >>
    /\ l_task = [t \in TaskIds |-> NoTask]
    /\ l_log = NoLog

(***************************************************************************)
(* Queue (src/persiktunes/queue.py)                                        *)
(***************************************************************************)
LoopModes == {None, "track", "queue"}

\* list.index(item): position (1-based) of the first element equal to item
\* under Track.__eq__; 0 stands for ValueError (no such element).
_index(queue, item) ==
    IF \E i \in 1..Len(queue) : TrackEq(queue[i], item)
    THEN CHOOSE i \in 1..Len(queue) :
            /\ TrackEq(queue[i], item)
            /\ \A j \in 1..(i - 1) : ~TrackEq(queue[j], item)
    ELSE 0

is_empty(queue) == Len(queue) = 0

\* max_size is << >> for None and <<m>> for the integer m.
is_full(queue, max_size) == IF max_size = << >> THEN FALSE ELSE Len(queue) >= max_size[1]

\* Queue._get: with a loop mode set, pops the head; without one, the element
\* after the current item.  raised is the exception of the lookup, if any.
_get(queue, current, loop) ==
    IF loop # None
    THEN [raised |-> None, item |-> Head(queue), queue |-> Tail(queue)]
    ELSE LET i == _index(queue, current) IN
         IF i = 0
         THEN [raised |-> "ValueError", item |-> None, queue |-> queue]
         ELSE IF i + 1 > Len(queue)
         THEN [raised |-> "IndexError", item |-> None, queue |-> queue]
         ELSE [raised |-> None, item |-> queue[i + 1], queue |-> queue]

\* Queue.next: the new queue, the new current item and what the call returns
\* (val) or raises.
next(queue, current, loop, strict) ==
    IF is_empty(queue)
    THEN [queue |-> queue, current |-> current,
          val |-> IF strict THEN "QueueEmpty" ELSE None]
    ELSE LET g == _get(queue, current, loop) IN
         IF g.raised = None
         THEN \* falls off the end of the function: returns None
              [queue |-> g.queue, current |-> g.item, val |-> None]
         ELSE \* bare except: reads self._loop_mode.value
              IF loop = None
              THEN [queue |-> queue, current |-> current, val |-> "AttributeError"]
              ELSE IF loop = "queue"
              THEN [queue |-> queue, current |-> queue[1], val |-> queue[1]]
              ELSE [queue |-> queue, current |-> current, val |-> None]

\* a get that advances whatever the loop mode
get_advancing(queue, current, loop, strict) == next(queue, current, loop, strict)

\* Queue.get: in track-loop mode with a current item returns it, else next().
get(queue, current, loop, strict) ==
    IF loop = "track" /\ current # None
    THEN [queue |-> queue, current |-> current, val |-> current]
    ELSE next(queue, current, loop, strict)

\* Queue.put: the new queue and the outcome.
put(queue, item, cfg) ==
    IF is_full(queue, cfg.max_size)
    THEN IF ~cfg.overflow
         THEN [queue |-> queue,
               val |-> IF cfg.return_exceptions THEN "QueueFull" ELSE None]
         ELSE \* _drop(): pops the tail, then appends
              [queue |-> Append(SubSeq(queue, 1, Len(queue) - 1), item), val |-> None]
    ELSE [queue |-> Append(queue, item), val |-> None]

\* Queue._drop: pops the tail; on an empty list pop() raises IndexError.
_drop(queue) ==
    IF Len(queue) = 0
    THEN [raised |-> "IndexError", queue |-> queue]
    ELSE [raised |-> None, queue |-> SubSeq(queue, 1, Len(queue) - 1)]

\* Queue._insert: list.insert(index, item) for index >= 0; an index past the
\* end appends.
_insert(queue, index, item) ==
    IF index >= Len(queue)
    THEN Append(queue, item)
    ELSE SubSeq(queue, 1, index) \o <<item>> \o SubSeq(queue, index + 1, Len(queue))

\* what a full queue without overflow answers
Rejected(queue, cfg) ==
    [queue |-> queue, val |-> IF cfg.return_exceptions THEN "QueueFull" ELSE None]

\* Queue.put_at_index
put_at_index(queue, index, item, cfg) ==
    IF is_full(queue, cfg.max_size)
    THEN IF ~cfg.overflow
         THEN Rejected(queue, cfg)
         ELSE LET d == _drop(queue) IN
              IF d.raised # None
              THEN [queue |-> queue, val |-> d.raised]
              ELSE [queue |-> _insert(d.queue, index, item), val |-> None]
    ELSE [queue |-> _insert(queue, index, item), val |-> None]

\* Queue.put_at_front: drops the tail of a full queue itself, then calls
\* put_at_index(0, item)
put_at_front(queue, item, cfg) ==
    IF is_full(queue, cfg.max_size)
    THEN IF ~cfg.overflow
         THEN Rejected(queue, cfg)
         ELSE LET d == _drop(queue) IN
              IF d.raised # None
              THEN [queue |-> queue, val |-> d.raised]
              ELSE put_at_index(d.queue, 0, item, cfg)
    ELSE put_at_index(queue, 0, item, cfg)

\* for _ in range(len(item)): self._drop()
RECURSIVE DropTimes(_, _)
DropTimes(queue, k) ==
    IF k = 0
    THEN [raised |-> None, queue |-> queue]
    ELSE LET d == _drop(queue) IN
         IF d.raised # None THEN d ELSE DropTimes(d.queue, k - 1)

\* Queue.put_list: only a queue that is already full is rejected or trimmed;
\* the list is then appended whole.
put_list(queue, items, cfg) ==
    IF is_full(queue, cfg.max_size)
    THEN IF ~cfg.overflow
         THEN Rejected(queue, cfg)
         ELSE LET d == DropTimes(queue, Len(items)) IN
              IF d.raised # None
              THEN [queue |-> d.queue, val |-> d.raised]
              ELSE [queue |-> d.queue \o items, val |-> None]
    ELSE [queue |-> queue \o items, val |-> None]

\* for item in iterable: self.put(item); a put that raises ends the loop
RECURSIVE PutEach(_, _, _)
PutEach(queue, items, cfg) ==
    IF items = << >>
    THEN [queue |-> queue, val |-> None]
    ELSE LET r == put(queue, Head(items), cfg) IN
         IF r.val # None THEN r ELSE PutEach(r.queue, Tail(items), cfg)

\* an extend that never checks the room left
extend_unchecked(queue, items, atomic, cfg) == PutEach(queue, items, cfg)

\* Queue.extend
extend(queue, items, atomic, cfg) ==
    IF /\ atomic
       /\ ~cfg.overflow
       /\ cfg.max_size # << >>
       /\ Len(items) + Len(queue) > cfg.max_size[1]
    THEN Rejected(queue, cfg)
    ELSE PutEach(queue, items, cfg)

\* x in self._queue, by Track.__eq__
Contains(queue, item) == \E i \in 1..Len(queue) : TrackEq(queue[i], item)

\* Queue.prev: the new current item and what the call returns or raises
prev(queue, current, strict) ==
    IF is_empty(queue)
    THEN [current |-> current, val |-> IF strict THEN "QueueEmpty" ELSE None]
    ELSE IF current = None \/ ~Contains(queue, current)
    THEN [current |-> queue[1], val |-> queue[1]]
    ELSE IF _index(queue, current) = 1
    THEN \* find_position is 0: a bare return
         [current |-> current, val |-> None]
    ELSE [current |-> queue[_index(queue, current) - 1],
          val |-> queue[_index(queue, current) - 1]]

\* random.shuffle(self._queue): every reordering of the list
Shuffles(queue) ==
    {[i \in 1..Len(queue) |-> queue[f[i]]] :
        f \in {h \in [1..Len(queue) -> 1..Len(queue)] :
                 \A i, j \in 1..Len(queue) : h[i] = h[j] => i = j}}

\* self._queue.remove(item): drops the first element equal to item
_remove(queue, item) ==
    LET i == _index(queue, item) IN
    IF i = 0
    THEN [raised |-> "ValueError", queue |-> queue]
    ELSE [raised |-> None,
          queue |-> SubSeq(queue, 1, i - 1) \o SubSeq(queue, i + 1, Len(queue))]

\* Queue.shuffle after random.shuffle produced `shuffled`
shuffle(shuffled, current) ==
    LET r == _remove(shuffled, current) IN
    IF r.raised # None
    THEN [queue |-> shuffled, val |-> r.raised]
    ELSE [queue |-> _insert(r.queue, 0, current), val |-> None]

\* the lists handed to put_list and extend
Lists == UNION {[1..k -> Tracks] : k \in 0..MaxList}

\* The observer of the scenario put(a); put(b); put(c); next(); next(); next();
\* next() on a fresh strict queue: pos is the number of scenario calls made
\* so far (-1 once the calls left the scenario), vals the values of its next()s.
ScriptOps == << <<"put", "a">>, <<"put", "b">>, <<"put", "c">>,
                <<"next", None>>, <<"next", None>>, <<"next", None>>, <<"next", None>> >>

ScriptStep(op, arg, val) ==
    IF /\ q_script.pos >= 0
       /\ q_script.pos < Len(ScriptOps)
       /\ ScriptOps[q_script.pos + 1] = <<op, arg>>
       /\ q_cfg.return_exceptions
       /\ q_cfg.max_size = << >>
    THEN [pos |-> q_script.pos + 1,
          vals |-> IF op = "next" THEN Append(q_script.vals, val) ELSE q_script.vals]
    ELSE [pos |-> -1, vals |-> << >>]

QueueVarsInit ==
    /\ q_queue = << >>
    /\ q_current = None
    /\ q_loop = None
    /\ q_cfg \in [max_size : {<< >>, <<2>>}, overflow : BOOLEAN, return_exceptions : BOOLEAN]
    /\ q_ret = [op |-> "init", arg |-> None, val |-> None, items |-> << >>]
    /\ q_script = [pos |-> 0, vals |-> << >>]

Queue_put(item) ==
    /\ Len(q_queue) < MaxQueue
    /\ LET r == put(q_queue, item, q_cfg) IN
       /\ q_queue' = r.queue
       /\ q_ret' = [op |-> "put", arg |-> item, val |-> r.val, items |-> << >>]
       /\ q_script' = ScriptStep("put", item, r.val)
    /\ UNCHANGED <<q_current, q_loop, q_cfg>>
    /\ UNCHANGED <<nonqvars, lvars>>

Queue_next ==
    /\ LET r == next(q_queue, q_current, q_loop, q_cfg.return_exceptions) IN
       /\ q_queue' = r.queue
       /\ q_current' = r.current
       /\ q_ret' = [op |-> "next", arg |-> None, val |-> r.val, items |-> << >>]
       /\ q_script' = ScriptStep("next", None, r.val)
    /\ UNCHANGED <<q_loop, q_cfg>>
    /\ UNCHANGED <<nonqvars, lvars>>

Queue_get ==
    /\ LET r == get(q_queue, q_current, q_loop, q_cfg.return_exceptions) IN
       /\ q_queue' = r.queue
       /\ q_current' = r.current
       /\ q_ret' = [op |-> "get", arg |-> None, val |-> r.val, items |-> << >>]
       /\ q_script' = ScriptStep("get", None, r.val)
    /\ UNCHANGED <<q_loop, q_cfg>>
    /\ UNCHANGED <<nonqvars, lvars>>

Queue_set_loop_mode(mode) ==
    /\ q_loop' = mode
    /\ q_ret' = [op |-> "set_loop_mode", arg |-> mode, val |-> None, items |-> << >>]
    /\ q_script' = ScriptStep("set_loop_mode", mode, None)
    /\ UNCHANGED <<q_queue, q_current, q_cfg>>
    /\ UNCHANGED <<nonqvars, lvars>>

Queue_put_at_index(index, item) ==
    /\ Len(q_queue) < MaxQueue
    /\ LET r == put_at_index(q_queue, index, item, q_cfg) IN
       /\ q_queue' = r.queue
       /\ q_ret' = [op |-> "put_at_index", arg |-> item, val |-> r.val, items |-> << >>]
       /\ q_script' = ScriptStep("put_at_index", item, r.val)
    /\ UNCHANGED <<q_current, q_loop, q_cfg>>
    /\ UNCHANGED <<nonqvars, lvars>>

Queue_put_at_front(item) ==
    /\ Len(q_queue) < MaxQueue
    /\ LET r == put_at_front(q_queue, item, q_cfg) IN
       /\ q_queue' = r.queue
       /\ q_ret' = [op |-> "put_at_front", arg |-> item, val |-> r.val, items |-> << >>]
       /\ q_script' = ScriptStep("put_at_front", item, r.val)
    /\ UNCHANGED <<q_current, q_loop, q_cfg>>
    /\ UNCHANGED <<nonqvars, lvars>>

Queue_put_list(items) ==
    /\ Len(q_queue) + Len(items) <= MaxQueue
    /\ LET r == put_list(q_queue, items, q_cfg) IN
       /\ q_queue' = r.queue
       /\ q_ret' = [op |-> "put_list", arg |-> None, val |-> r.val, items |-> items]
       /\ q_script' = ScriptStep("put_list", None, r.val)
    /\ UNCHANGED <<q_current, q_loop, q_cfg>>
    /\ UNCHANGED <<nonqvars, lvars>>

Queue_extend(items, atomic) ==
    /\ Len(q_queue) + Len(items) <= MaxQueue
    /\ LET r == extend(q_queue, items, atomic, q_cfg) IN
       /\ q_queue' = r.queue
       /\ q_ret' = [op |-> IF atomic THEN "extend" ELSE "extend_each",
                    arg |-> None, val |-> r.val, items |-> items]
       /\ q_script' = ScriptStep("extend", None, r.val)
    /\ UNCHANGED <<q_current, q_loop, q_cfg>>
    /\ UNCHANGED <<nonqvars, lvars>>

Queue_prev ==
    /\ LET r == prev(q_queue, q_current, q_cfg.return_exceptions) IN
       /\ q_current' = r.current
       /\ q_ret' = [op |-> "prev", arg |-> None, val |-> r.val, items |-> << >>]
       /\ q_script' = ScriptStep("prev", None, r.val)
    /\ UNCHANGED <<q_queue, q_loop, q_cfg>>
    /\ UNCHANGED <<nonqvars, lvars>>

Queue_shuffle ==
    /\ \E shuffled \in Shuffles(q_queue) :
          LET r == shuffle(shuffled, q_current) IN
          /\ q_queue' = r.queue
          /\ q_ret' = [op |-> "shuffle", arg |-> None, val |-> r.val, items |-> << >>]
          /\ q_script' = ScriptStep("shuffle", None, r.val)
    /\ UNCHANGED <<q_current, q_loop, q_cfg>>
    /\ UNCHANGED <<nonqvars, lvars>>

QueueNext ==
    \/ \E item \in Tracks : Queue_put(item)
    \/ \E index \in 0..MaxQueue, item \in Tracks : Queue_put_at_index(index, item)
    \/ \E item \in Tracks : Queue_put_at_front(item)
    \/ \E items \in Lists : Queue_put_list(items)
    \/ \E items \in Lists, atomic \in BOOLEAN : Queue_extend(items, atomic)
    \/ Queue_prev
    \/ Queue_shuffle
    \/ Queue_next
    \/ Queue_get
    \/ \E mode \in LoopModes : Queue_set_loop_mode(mode)

\* self._queue[i] of Python for an int i: negative i counts from the end
getitem(queue, i) ==
    IF i >= Len(queue) \/ i < 0 - Len(queue)
    THEN [raised |-> "IndexError", item |-> None]
    ELSE [raised |-> None, item |-> queue[IF i >= 0 THEN i + 1 ELSE Len(queue) + i + 1]]

\* an argument that is a Track or an int
ItemArg(kind, track, index) == [kind |-> kind, track |-> track, index |-> index]

\* Queue._get_item: a Track is returned as it is, an int indexes the list
_get_item(queue, item) ==
    IF item.kind = "track"
    THEN [raised |-> None, item |-> item.track]
    ELSE getitem(queue, item.index)

\* Queue.pop(index): the new queue and what the call returns or raises
pop(queue, index, strict) ==
    IF is_empty(queue)
    THEN [queue |-> queue, val |-> IF strict THEN "QueueEmpty" ELSE None]
    ELSE LET g == getitem(queue, index)
             i == IF index >= 0 THEN index + 1 ELSE Len(queue) + index + 1
         IN  IF g.raised # None
             THEN [queue |-> queue, val |-> g.raised]
             ELSE [queue |-> SubSeq(queue, 1, i - 1) \o SubSeq(queue, i + 1, Len(queue)),
                   val |-> g.item]

\* Queue.remove(item): when the item equals the current item the cursor is
\* first moved to the element before the current one (the last element from
\* position 0), then the item is removed from the list
remove(queue, current, item) ==
    LET g == _get_item(queue, item)
    IN  IF g.raised # None
        THEN [queue |-> queue, current |-> current, val |-> g.raised]
        ELSE IF TrackEq(g.item, current) /\ _index(queue, current) = 0
        THEN [queue |-> queue, current |-> current, val |-> "ValueError"]
        ELSE LET cur == IF TrackEq(g.item, current)
                        THEN getitem(queue, _index(queue, current) - 2).item
                        ELSE current
                 r   == _remove(queue, g.item)
             IN  [queue |-> r.queue, current |-> cur, val |-> r.raised]

\* Queue.jump(item)
jump(queue, current, loop, item, strict) ==
    LET g == _get_item(queue, item)
        refused == [current |-> current,
                    val |-> IF strict THEN "QueueException" ELSE None]
    IN  IF loop = "track"
        THEN refused
        ELSE IF g.raised # None
        THEN [current |-> current, val |-> g.raised]
        ELSE IF Contains(queue, g.item)
        THEN [current |-> g.item, val |-> g.item]
        ELSE refused

\* Queue.move(item, index) for index >= 0
move(queue, item, index, strict) ==
    IF is_empty(queue)
    THEN [queue |-> queue, val |-> IF strict THEN "QueueEmpty" ELSE None]
    ELSE LET g == _get_item(queue, item)
         IN  IF g.raised # None
             THEN [queue |-> queue, val |-> g.raised]
             ELSE IF Contains(queue, g.item)
             THEN [queue |-> _insert(_remove(queue, g.item).queue, index, g.item),
                   val |-> None]
             ELSE [queue |-> queue, val |-> None]

\* the Track and int arguments of remove, jump and move
ItemArgs ==
    {ItemArg("track", t, 0) : t \in Tracks}
        \cup {ItemArg("int", None, i) : i \in (0 - 1)..1}

Queue_pop(index) ==
    /\ LET r == pop(q_queue, index, q_cfg.return_exceptions) IN
       /\ q_queue' = r.queue
       /\ q_ret' = [op |-> "pop", arg |-> None, val |-> r.val, items |-> << >>]
       /\ q_script' = ScriptStep("pop", None, r.val)
    /\ UNCHANGED <<q_current, q_loop, q_cfg>>
    /\ UNCHANGED <<nonqvars, lvars>>

Queue_remove(item) ==
    /\ LET r == remove(q_queue, q_current, item) IN
       /\ q_queue' = r.queue
       /\ q_current' = r.current
       /\ q_ret' = [op |-> "remove", arg |-> item.track, val |-> r.val, items |-> << >>]
       /\ q_script' = ScriptStep("remove", None, r.val)
    /\ UNCHANGED <<q_loop, q_cfg>>
    /\ UNCHANGED <<nonqvars, lvars>>

Queue_clear ==
    /\ q_queue' = << >>
    /\ q_ret' = [op |-> "clear", arg |-> None, val |-> None, items |-> << >>]
    /\ q_script' = ScriptStep("clear", None, None)
    /\ UNCHANGED <<q_current, q_loop, q_cfg>>
    /\ UNCHANGED <<nonqvars, lvars>>

Queue_jump(item) ==
    /\ LET r == jump(q_queue, q_current, q_loop, item, q_cfg.return_exceptions) IN
       /\ q_current' = r.current
       /\ q_ret' = [op |-> "jump", arg |-> item.track, val |-> r.val, items |-> << >>]
       /\ q_script' = ScriptStep("jump", None, r.val)
    /\ UNCHANGED <<q_queue, q_loop, q_cfg>>
    /\ UNCHANGED <<nonqvars, lvars>>

Queue_move(item, index) ==
    /\ LET r == move(q_queue, item, index, q_cfg.return_exceptions) IN
       /\ q_queue' = r.queue
       /\ q_ret' = [op |-> "move", arg |-> item.track, val |-> r.val, items |-> << >>]
       /\ q_script' = ScriptStep("move", None, r.val)
    /\ UNCHANGED <<q_current, q_loop, q_cfg>>
    /\ UNCHANGED <<nonqvars, lvars>>

\* every operation of the Queue that changes the list or the cursor
QueueAllNext ==
    \/ QueueNext
    \/ \E index \in (0 - 1)..0 : Queue_pop(index)
    \/ \E item \in ItemArgs : Queue_remove(item)
    \/ Queue_clear
    \/ \E item \in ItemArgs : Queue_jump(item)
    \/ \E item \in ItemArgs, index \in 0..1 : Queue_move(item, index)

(***************************************************************************)
(* NodePool and Node (src/persiktunes/pool.py) with the Node's event       *)
(* socket (src/persiktunes/clients/ws.py).                                 *)
(*                                                                         *)
(* A Node object and the LavalinkWebsocket it owns are one record; the     *)
(* fields the two classes both declare are kept apart: `available` is      *)
(* Node._available (read by get_node, get_best_node and REST send),        *)
(* `ws_available` is LavalinkWebsocket._available.                         *)
(***************************************************************************)
Idents == {"A", "B", "C"}

NodeObjs == 1..MaxNodes

\* LavalinkVersion(major, minor, fix) as a triple; comparison is that of tuples.
VersionLess(v, w) ==
    \/ v[1] < w[1]
    \/ v[1] = w[1] /\ v[2] < w[2]
    \/ v[1] = w[1] /\ v[2] = w[2] /\ v[3] < w[3]

\* A version string is the sequence of its characters; the marker -SNAPSHOT
\* is one element of the sequence.
Digits == {"0", "3", "4", "7"}

VersionChars == Digits \cup {".", "b", "-SNAPSHOT"}

MaxVersionLen == 6

VersionStrings == UNION {[1..k -> VersionChars] : k \in 0..MaxVersionLen}

\* What the node's GET /version answers in the connection scenarios.
Versions == {<<"3", ".", "4", ".", "7">>, <<"3", ".", "7", ".", "0">>,
             <<"4", ".", "0", ".", "0">>}

DigitValue(c) == CASE c = "0" -> 0 [] c = "3" -> 3 [] c = "4" -> 4 [] c = "7" -> 7

\* \d+ at position i: the length of the longest run of digits starting there
RECURSIVE DigitRun(_, _)
DigitRun(s, i) ==
    IF i <= Len(s) /\ s[i] \in Digits THEN 1 + DigitRun(s, i + 1) ELSE 0

\* int(group or 0)
RECURSIVE Num(_)
Num(ds) ==
    IF ds = << >> THEN 0
    ELSE 10 * Num(SubSeq(ds, 1, Len(ds) - 1)) + DigitValue(ds[Len(ds)])

\* a pattern without its third group
VERSION_REGEX_two_groups(s) ==
    LET n1 == DigitRun(s, 1)
        has2 == n1 > 0 /\ n1 + 1 <= Len(s) /\ s[n1 + 1] = "." /\ DigitRun(s, n1 + 2) > 0
        n2 == IF has2 THEN DigitRun(s, n1 + 2) ELSE 0
    IN  [matched |-> n1 > 0,
         groups  |-> <<SubSeq(s, 1, n1),
                       IF has2 THEN SubSeq(s, n1 + 2, n1 + 1 + n2) ELSE << >>,
                       << >> >>]

\* VERSION_REGEX.match(s): (\d+)(?:\.(\d+))?(?:\.(\d+))? and an optional
\* suffix, anchored at the start of s only.  Every part after the first
\* group is optional and greedy, so each group is the longest run of digits
\* at its place; a group that did not take part is the empty sequence.
VERSION_REGEX(s) ==
    LET n1 == DigitRun(s, 1)
        has2 == n1 > 0 /\ n1 + 1 <= Len(s) /\ s[n1 + 1] = "." /\ DigitRun(s, n1 + 2) > 0
        n2 == IF has2 THEN DigitRun(s, n1 + 2) ELSE 0
        e2 == IF has2 THEN n1 + 1 + n2 ELSE n1
        has3 == n1 > 0 /\ e2 + 1 <= Len(s) /\ s[e2 + 1] = "." /\ DigitRun(s, e2 + 2) > 0
        n3 == IF has3 THEN DigitRun(s, e2 + 2) ELSE 0
    IN  [matched |-> n1 > 0,
         groups  |-> <<SubSeq(s, 1, n1),
                       IF has2 THEN SubSeq(s, n1 + 2, n1 + 1 + n2) ELSE << >>,
                       IF has3 THEN SubSeq(s, e2 + 2, e2 + 1 + n3) ELSE << >> >>]

\* version.endswith("-SNAPSHOT")
endswith_SNAPSHOT(s) == s # << >> /\ s[Len(s)] = "-SNAPSHOT"

\* Node.__init__ and LavalinkWebsocket.__init__
NewNode(identifier) ==
    [identifier |-> identifier,
     pc |-> "version",          \* ws.connect awaits the version request
     available |-> FALSE,       \* Node._available
     ws_available |-> FALSE,    \* LavalinkWebsocket._available
     version |-> <<0, 0, 0>>,   \* Node._version
     checked |-> FALSE,         \* observer: the version check has passed
     ws_open |-> FALSE,         \* the websocket exists and is not closed
     task |-> FALSE,            \* LavalinkWebsocket._task: the listen task exists
     session_id |-> None,       \* Node._session_id
     ws_session_id |-> None,    \* LavalinkWebsocket._session_id
     players |-> {}]            \* Node._players: the guild ids registered

NoNode ==
    [identifier |-> None, pc |-> "none", available |-> FALSE, ws_available |-> FALSE,
     version |-> <<0, 0, 0>>, checked |-> FALSE, ws_open |-> FALSE, task |-> FALSE,
     session_id |-> None, ws_session_id |-> None, players |-> {}]

\* the identifiers registered in the pool: cls._nodes.keys()
PoolKeys(pl, nd) == {nd[pl[k]].identifier : k \in 1..Len(pl)}

\* cls._nodes[identifier] = n: an existing key keeps its place in the dict.
PoolSet(pl, nd, n) ==
    IF \E k \in 1..Len(pl) : nd[pl[k]].identifier = nd[n].identifier
    THEN [k \in 1..Len(pl) |->
            IF nd[pl[k]].identifier = nd[n].identifier THEN n ELSE pl[k]]
    ELSE Append(pl, n)

\* a version check that accepts every version
_handle_version_check_lax(nrec, version) ==
    LET g == VERSION_REGEX(version).groups
    IN  [node |-> [nrec EXCEPT !.version = <<Num(g[1]), Num(g[2]), Num(g[3])>>,
                               !.checked = TRUE],
         raised |-> None, warned |-> FALSE]

\* a version check that leaves the availability flag alone
_handle_version_check_unmarked(nrec, version) ==
    IF endswith_SNAPSHOT(version)
    THEN [node |-> [nrec EXCEPT !.version = <<4, 0, 0>>, !.checked = TRUE],
          raised |-> None, warned |-> FALSE]
    ELSE LET m == VERSION_REGEX(version)
             v == <<Num(m.groups[1]), Num(m.groups[2]), Num(m.groups[3])>>
         IN  IF ~m.matched
             THEN [node |-> nrec,
                   raised |-> "LavalinkVersionIncompatible", warned |-> FALSE]
             ELSE IF VersionLess(v, <<3, 7, 0>>)
             THEN [node |-> [nrec EXCEPT !.version = v],
                   raised |-> "LavalinkVersionIncompatible", warned |-> FALSE]
             ELSE [node |-> [nrec EXCEPT !.version = v, !.checked = TRUE],
                   raised |-> None, warned |-> VersionLess(v, <<4, 0, 0>>)]

\* Node._handle_version_check on the version string: the Node after it, the
\* exception raised, if any, and whether the warning was logged.
_handle_version_check(nrec, version) ==
    IF endswith_SNAPSHOT(version)
    THEN [node |-> [nrec EXCEPT !.version = <<4, 0, 0>>, !.checked = TRUE],
          raised |-> None, warned |-> FALSE]
    ELSE LET m == VERSION_REGEX(version)
             v == <<Num(m.groups[1]), Num(m.groups[2]), Num(m.groups[3])>>
         IN  IF ~m.matched
             THEN [node |-> [nrec EXCEPT !.available = FALSE],
                   raised |-> "LavalinkVersionIncompatible", warned |-> FALSE]
             ELSE IF VersionLess(v, <<3, 7, 0>>)
             THEN [node |-> [nrec EXCEPT !.version = v, !.available = FALSE],
                   raised |-> "LavalinkVersionIncompatible", warned |-> FALSE]
             ELSE [node |-> [nrec EXCEPT !.version = v, !.checked = TRUE],
                   raised |-> None, warned |-> VersionLess(v, <<4, 0, 0>>)]

\* LavalinkWebsocket.connect after the handshake has succeeded: the socket is
\* stored, the listen task is started if there is none, the socket is marked
\* available.
ws_connected(nrec) ==
    [nrec EXCEPT !.ws_open = TRUE, !.task = TRUE, !.ws_available = TRUE]

\* Node.connect: awaits the socket's connect and marks the Node available.
Node_connect_return(nrec) == [nrec EXCEPT !.available = TRUE, !.pc = "up"]

NodeVarsInit ==
    /\ pool = << >>
    /\ node = [n \in NodeObjs |-> NoNode]
    /\ pool_ret = [op |-> "init", arg |-> None, val |-> None]

\* NodePool.create_node up to the first await of connect (the version request)
create_node(identifier) ==
    IF identifier \in PoolKeys(pool, node)
    THEN /\ pool_ret' = [op |-> "create_node", arg |-> identifier,
                         val |-> "NodeCreationError"]
         /\ UNCHANGED <<pool, node, qvars, lvars, pvars>>
    ELSE /\ \E n \in NodeObjs :
            /\ node[n].pc = "none"
            /\ \A m \in NodeObjs : m < n => node[m].pc # "none"
            /\ node' = [node EXCEPT ![n] = NewNode(identifier)]
            /\ UNCHANGED pool
         /\ pool_ret' = [op |-> "create_node", arg |-> identifier, val |-> "pending"]
         /\ UNCHANGED <<qvars, lvars, pvars>>

\* the version request of connect(reconnect=False) returns: a version string,
\* or (not ok) the request fails: aiohttp.ClientConnectorError, raised as
\* NodeConnectionFailure
connect_version(n, ok, answer) ==
    /\ node[n].pc = "version"
    /\ IF ~ok
       THEN /\ node' = [node EXCEPT ![n].pc = "failed"]
            /\ pool_ret' = [op |-> "create_node", arg |-> node[n].identifier,
                            val |-> "NodeConnectionFailure"]
       ELSE LET r == _handle_version_check(node[n], answer) IN
            IF r.raised # None
            THEN /\ node' = [node EXCEPT ![n] = [r.node EXCEPT !.pc = "failed"]]
                 /\ pool_ret' = [op |-> "create_node", arg |-> node[n].identifier,
                                 val |-> r.raised]
            ELSE /\ node' = [node EXCEPT ![n] = [r.node EXCEPT !.pc = "handshake"]]
                 /\ UNCHANGED pool_ret
    /\ UNCHANGED <<pool, qvars, lvars, pvars>>

\* the websocket handshake of connect returns; on success connect returns and
\* create_node registers the Node and returns it
connect_handshake(n, ok) ==
    /\ node[n].pc = "handshake"
    /\ IF ok
       THEN /\ node' = [node EXCEPT ![n] = Node_connect_return(ws_connected(node[n]))]
            /\ pool' = PoolSet(pool, node', n)
            /\ pool_ret' = [op |-> "create_node", arg |-> node[n].identifier, val |-> "ok"]
       ELSE /\ node' = [node EXCEPT ![n].pc = "failed"]
            /\ pool_ret' = [op |-> "create_node", arg |-> node[n].identifier,
                            val |-> "NodeConnectionFailure"]
            /\ UNCHANGED pool
    /\ UNCHANGED <<qvars, lvars, pvars>>

NodeNext ==
    \/ \E identifier \in Idents : create_node(identifier)
    \/ \E n \in NodeObjs, ok \in BOOLEAN, answer \in Versions :
          connect_version(n, ok, answer)
    \/ \E n \in NodeObjs, ok \in BOOLEAN : connect_handshake(n, ok)

(***************************************************************************)
(* NodePool lookups (pool.py).  Both read the class-level map in insertion *)
(* order and look only at Node._available.                                 *)
(***************************************************************************)
\* the pooled node objects with _available set, in insertion order
AvailableNodes(pl, nd) == SelectSeq(pl, LAMBDA n : nd[n].available)

\* a get_node that looks at every pooled node
get_node_any(pl, nd, identifier) ==
    IF pl = << >>
    THEN [raised |-> "NoNodesAvailable", nodes |-> {}]
    ELSE IF identifier = None
    THEN [raised |-> None, nodes |-> {pl[i] : i \in 1..Len(pl)}]
    ELSE IF identifier \notin PoolKeys(pl, nd)
    THEN [raised |-> "KeyError", nodes |-> {}]
    ELSE [raised |-> None,
          nodes  |-> {pl[i] : i \in {j \in 1..Len(pl) : nd[pl[j]].identifier = identifier}}]

\* NodePool.get_node: the exception raised, or the set of node objects the
\* call may return (random.choice draws any available node; the lookup of an
\* identifier that is no key of the available nodes raises KeyError).
get_node(pl, nd, identifier) ==
    LET avail == AvailableNodes(pl, nd)
        ids   == {nd[avail[i]].identifier : i \in 1..Len(avail)}
    IN  IF avail = << >>
        THEN [raised |-> "NoNodesAvailable", nodes |-> {}]
        ELSE IF identifier = None
        THEN [raised |-> None, nodes |-> {avail[i] : i \in 1..Len(avail)}]
        ELSE IF identifier \notin ids
        THEN [raised |-> "KeyError", nodes |-> {}]
        ELSE [raised |-> None,
              nodes  |-> {avail[i] : i \in {j \in 1..Len(avail) :
                                              nd[avail[j]].identifier = identifier}}]

\* min(tested_nodes, key=tested_nodes.get): the first node, in the order of
\* the sequence, whose key is minimal
MinFirst(nodes, key) ==
    nodes[CHOOSE i \in 1..Len(nodes) :
            /\ \A j \in 1..Len(nodes) : key[nodes[i]] <= key[nodes[j]]
            /\ \A j \in 1..(i - 1) : key[nodes[j]] > key[nodes[i]]]

\* a get_best_node that looks at every pooled node, by player count
get_best_node_any(pl, nd, algorithm, lat) ==
    IF pl = << >>
    THEN [raised |-> "NoNodesAvailable", node |-> 0]
    ELSE [raised |-> None,
          node |-> MinFirst(pl, [n \in NodeObjs |-> Cardinality(nd[n].players)])]

\* NodePool.get_best_node: the exception raised or the node object returned;
\* lat is what Node.latency measures for each node during the call.
get_best_node(pl, nd, algorithm, lat) ==
    LET avail == AvailableNodes(pl, nd)
    IN  IF avail = << >>
        THEN [raised |-> "NoNodesAvailable", node |-> 0]
        ELSE IF algorithm = "by_ping"
        THEN [raised |-> None, node |-> MinFirst(avail, lat)]
        ELSE IF algorithm = "by_players"
        THEN [raised |-> None,
              node |-> MinFirst(avail, [n \in NodeObjs |-> Cardinality(nd[n].players)])]
        ELSE [raised |-> "ValueError", node |-> 0]

Algorithms == {"by_ping", "by_players", "by_region"}
Latencies == {10, 20}

\* a call of NodePool.get_best_node
call_get_best_node(algorithm, lat) ==
    /\ LET r == get_best_node(pool, node, algorithm, lat)
       IN  pool_ret' = [op |-> "get_best_node", arg |-> algorithm,
                        val |-> IF r.raised # None THEN r.raised
                                ELSE node[r.node].identifier]
    /\ UNCHANGED <<pool, node, qvars, lvars, pvars>>

\* a call of NodePool.get_node; "Z" is an identifier no node was created with
call_get_node(identifier) ==
    /\ LET r == get_node(pool, node, identifier)
       IN  IF r.raised # None
           THEN pool_ret' = [op |-> "get_node", arg |-> identifier, val |-> r.raised]
           ELSE \E n \in r.nodes :
                   pool_ret' = [op |-> "get_node", arg |-> identifier,
                                val |-> node[n].identifier]
    /\ UNCHANGED <<pool, node, qvars, lvars, pvars>>

\* a send that refuses an unavailable node whatever the flag
send_check_strict(available, ignore_if_available) ==
    IF ~available THEN "NodeNotAvailable" ELSE "request"

\* LavalinkRest.send before its request: NodeNotAvailable when the node is
\* not marked available and ignore_if_available is not given, else the
\* request is made.
send_check(available, ignore_if_available) ==
    IF ~ignore_if_available /\ ~available THEN "NodeNotAvailable" ELSE "request"

\* a call of LavalinkRest.send on the REST client of a pooled node, up to
\* the point where the request is made
call_rest_send(n, ignore_if_available) ==
    /\ pool_ret' = [op  |-> IF ignore_if_available THEN "send_ignore_if_available"
                                                  ELSE "send",
                    arg |-> node[n].identifier,
                    val |-> send_check(node[n].available, ignore_if_available)]
    /\ UNCHANGED <<pool, node, qvars, lvars, pvars>>

LookupNext ==
    \/ \E algorithm \in Algorithms, lat \in [NodeObjs -> Latencies] :
          call_get_best_node(algorithm, lat)
    \/ \E identifier \in Idents \cup {None, "Z"} : call_get_node(identifier)
    \/ \E n \in {pool[i] : i \in 1..Len(pool)}, ignore_if_available \in BOOLEAN :
          call_rest_send(n, ignore_if_available)

(***************************************************************************)
(* Player (player.py).  One application call or voice handler of a player  *)
(* is in flight at a time; it is suspended at an await ("voice": the       *)
(* Discord gateway call, which completes; "rest": a Lavalink REST request, *)
(* which succeeds or fails).  _dispatch_event has no await and runs while  *)
(* a call is suspended.                                                    *)
(***************************************************************************)
Guilds == {"g1"}
Channels == {"ch1", "ch2"}
Volumes == {50, 100}
MaxPosition == 3
Positions == (0 - 1)..MaxPosition
PauseArgs == {"None", "True", "False"}
EventClasses == {"TrackStartEvent", "TrackEndEvent"}
EndReasons == {"finished", "replaced"}

\* the cached fields set_pause, set_volume and move_to write
Cached(p) == [paused |-> p.paused, volume |-> p.volume, channel |-> p.channel]

NoCall ==
    [op |-> "idle", stage |-> "idle", arg |-> None, num |-> 0, sent |-> 0,
     pre |-> [paused |-> FALSE, volume |-> 100, channel |-> None]]

NoRet ==
    [guild |-> None, op |-> "none", arg |-> None, num |-> 0, val |-> None, sent |-> 0,
     pre |-> [paused |-> FALSE, volume |-> 100, channel |-> None]]

NoPlayer ==
    [made |-> FALSE, node |-> 0, rest |-> 0, current |-> None, paused |-> FALSE,
     volume |-> 100, channel |-> None, is_connected |-> FALSE, voice |-> {},
     destroyed |-> FALSE, last_position |-> 0, last_update |-> 0, call |-> NoCall]

\* Player.__init__
NewPlayer(n, channel) ==
    [made |-> TRUE, node |-> n, rest |-> n, current |-> None, paused |-> FALSE,
     volume |-> 100, channel |-> channel, is_connected |-> FALSE, voice |-> {},
     destroyed |-> FALSE, last_position |-> 0, last_update |-> 0, call |-> NoCall]

Begin(p, op, arg, num, stage) ==
    [p EXCEPT !.call = [op |-> op, stage |-> stage, arg |-> arg, num |-> num,
                        sent |-> 0, pre |-> Cached(p)]]

Ret(g, p, val) ==
    [guild |-> g, op |-> p.call.op, arg |-> p.call.arg, num |-> p.call.num, val |-> val,
     sent |-> p.call.sent, pre |-> p.call.pre]

\* the call of player g returns or raises val, leaving the player as p
Finish(g, p, val) ==
    /\ player' = [player EXCEPT ![g] = [p EXCEPT !.call = NoCall]]
    /\ p_ret' = Ret(g, p, val)

\* LavalinkRest.send up to its request: NodeNotAvailable unless the node is
\* marked available, else the call is suspended on the request.
rest_send(g, p, ret) ==
    IF send_check(node[p.rest].available, FALSE) = "NodeNotAvailable"
    THEN Finish(g, p, "NodeNotAvailable")
    ELSE /\ player' = [player EXCEPT ![g] =
                          [p EXCEPT !.call.stage = "rest", !.call.sent = @ + 1]]
         /\ p_ret' = ret

\* Player._dispatch_voice_update up to its request: the body is None for an
\* empty state, else it reads state["event"] and state["sessionId"].
voice_update_data(state) ==
    IF state = {} THEN "send"
    ELSE IF {"event", "sessionId"} \subseteq state THEN "send"
    ELSE "KeyError"

_dispatch_voice_update(g, p, state, ret) ==
    IF voice_update_data(state) = "KeyError"
    THEN Finish(g, p, "KeyError")
    ELSE rest_send(g, p, ret)

\* a play that leaves the current track to be set after its REST request
play_sync_late(p, track) == [p EXCEPT !.paused = FALSE]

\* Player.play before its REST request
play_sync(p, track) == [p EXCEPT !.paused = FALSE, !.current = track]

\* Player.stop before its REST request
stop_sync(p) == [p EXCEPT !.current = None]

\* a seek that checks only the lower bound
seek_check_unbounded(p, position) ==
    IF p.current = None \/ TrackEncoded(p.current) = ""
    THEN "0"
    ELSE IF position < 0
    THEN "TrackInvalidPosition"
    ELSE "send"

\* Player.seek before its REST request
seek_check(p, position) ==
    IF p.current = None \/ TrackEncoded(p.current) = ""
    THEN "0"
    ELSE IF position < 0 \/ position > TrackLength(p.current)
    THEN "TrackInvalidPosition"
    ELSE "send"

\* pause or not self._paused
PauseValue(pause, paused) == IF pause = "True" THEN TRUE ELSE ~paused

\* Player.set_pause after its REST request
set_pause_return(p, pause, ok) ==
    IF ok THEN [p EXCEPT !.paused = PauseValue(pause, p.paused)] ELSE p

\* a set_volume that stores the volume whatever the answer
set_volume_return_always(p, volume, ok) == [p EXCEPT !.volume = volume]

\* Player.set_volume after its REST request
set_volume_return(p, volume, ok) ==
    IF ok THEN [p EXCEPT !.volume = volume] ELSE p

\* Player.move_to between the gateway call and the voice update
move_to_sync(p, channel) ==
    [p EXCEPT !.voice = @ \cup {"channel_id"}, !.channel = channel]

\* the finally block of Player.disconnect: VoiceProtocol.cleanup reads the
\* channel, and raises AttributeError when it is None.
disconnect_finally(p) ==
    IF p.channel = None
    THEN [p |-> p, raised |-> "AttributeError"]
    ELSE [p |-> [p EXCEPT !.is_connected = FALSE, !.channel = None],
          raised |-> None]

\* events.py: the event object built from a Lavalink event; TrackStartEvent
\* reads player.current, the others read player._ending_track, an attribute
\* no code assigns.
DsEvent(p, cls) ==
    IF cls = "TrackStartEvent"
    THEN [raised |-> None, track |-> p.current]
    ELSE [raised |-> "AttributeError", track |-> None]

PlayerVarsInit ==
    /\ player = [g \in Guilds |-> NoPlayer]
    /\ p_ret = NoRet

\* Player(client, channel, node=...): the given node, or NodePool.get_node()
Player_init(g, channel, given) ==
    /\ ~player[g].made
    /\ IF given # 0
       THEN /\ node[given].pc # "none"
            /\ player' = [player EXCEPT ![g] = NewPlayer(given, channel)]
            /\ p_ret' = [NoRet EXCEPT !.guild = g, !.op = "__init__", !.val = "ok"]
       ELSE LET r == get_node(pool, node, None)
            IN  IF r.raised # None
                THEN /\ p_ret' = [NoRet EXCEPT !.guild = g, !.op = "__init__", !.val = r.raised]
                     /\ UNCHANGED player
                ELSE \E n \in r.nodes :
                        /\ player' = [player EXCEPT ![g] = NewPlayer(n, channel)]
                        /\ p_ret' = [NoRet EXCEPT !.guild = g, !.op = "__init__", !.val = "ok"]
    /\ UNCHANGED <<qvars, lvars, nvars>>

Idle(g) == player[g].made /\ player[g].call.op = "idle"

connect(g) ==
    /\ Idle(g)
    /\ player' = [player EXCEPT ![g] = Begin(@, "connect", None, 0, "voice")]
    /\ p_ret' = NoRet
    /\ UNCHANGED <<qvars, lvars, nvars>>

play(g, track) ==
    /\ Idle(g)
    /\ rest_send(g, play_sync(Begin(player[g], "play", track, 0, "idle"), track), NoRet)
    /\ UNCHANGED <<qvars, lvars, nvars>>

stop(g) ==
    /\ Idle(g)
    /\ rest_send(g, stop_sync(Begin(player[g], "stop", None, 0, "idle")), NoRet)
    /\ UNCHANGED <<qvars, lvars, nvars>>

seek(g, position) ==
    /\ Idle(g)
    /\ LET p == Begin(player[g], "seek", None, position, "idle")
           c == seek_check(p, position)
       IN  IF c = "send" THEN rest_send(g, p, NoRet) ELSE Finish(g, p, c)
    /\ UNCHANGED <<qvars, lvars, nvars>>

set_pause(g, pause) ==
    /\ Idle(g)
    /\ rest_send(g, Begin(player[g], "set_pause", pause, 0, "idle"), NoRet)
    /\ UNCHANGED <<qvars, lvars, nvars>>

set_volume(g, volume) ==
    /\ Idle(g)
    /\ rest_send(g, Begin(player[g], "set_volume", None, volume, "idle"), NoRet)
    /\ UNCHANGED <<qvars, lvars, nvars>>

move_to(g, channel) ==
    /\ Idle(g)
    /\ player' = [player EXCEPT ![g] = Begin(@, "move_to", channel, 0, "voice")]
    /\ p_ret' = NoRet
    /\ UNCHANGED <<qvars, lvars, nvars>>

disconnect(g) ==
    /\ Idle(g)
    /\ player' = [player EXCEPT ![g] = Begin(@, "disconnect", None, 0, "voice")]
    /\ p_ret' = NoRet
    /\ UNCHANGED <<qvars, lvars, nvars>>

\* call.arg records whether an earlier destroy() of this player completed
destroy(g) ==
    /\ Idle(g)
    /\ player' = [player EXCEPT ![g] =
                     Begin(@, "destroy",
                           IF @.destroyed THEN "again" ELSE "first", 0, "voice")]
    /\ p_ret' = NoRet
    /\ UNCHANGED <<qvars, lvars, nvars>>

on_voice_server_update(g) ==
    /\ Idle(g)
    /\ LET p == [Begin(player[g], "on_voice_server_update", None, 0, "idle")
                    EXCEPT !.voice = @ \cup {"event"}]
       IN  _dispatch_voice_update(g, p, p.voice, NoRet)
    /\ UNCHANGED <<qvars, lvars, nvars>>

on_voice_state_update(g, channel_id, token) ==
    /\ Idle(g)
    /\ LET p == [Begin(player[g], "on_voice_state_update", channel_id, 0, "idle")
                    EXCEPT !.voice = @ \cup {"sessionId"}]
       IN  IF channel_id = None
           THEN /\ player' = [player EXCEPT ![g] = [p EXCEPT !.call.stage = "voice"]]
                /\ p_ret' = NoRet
           ELSE IF ~token
           THEN Finish(g, p, "ok")
           ELSE _dispatch_voice_update(g, p, p.voice \cup {"event"}, NoRet)
    /\ UNCHANGED <<qvars, lvars, nvars>>


\* Node.is_connected: the state of the node's websocket
is_connected(nrec) == nrec.ws_open

\* Player.destroy after its disconnect(): the except clause with its assert,
\* the removal from the node's player map, then the connection test.
destroy_after_disconnect(g, p, raised, players) ==
    IF raised # None /\ ~(p.channel = None /\ ~p.is_connected)
    THEN "AssertionError"
    ELSE IF g \notin players
    THEN "KeyError"
    ELSE "popped"

\* LavalinkWebsocket.disconnect after the "await player.destroy()" of its loop
\* has returned or raised val: the model has one player, so the loop ends and
\* the close of the websocket is awaited; an exception leaves disconnect with
\* the node as it is.  A destroy() called by disconnect has the node in
\* call.num, one called by the application has 0.
disconnect_resume(nd, ret, p, val) ==
    IF p.call.op = "destroy" /\ p.call.num # 0
    THEN IF val = "ok"
         THEN [node |-> [nd EXCEPT ![p.call.num].pc = "ws_close"], pool_ret |-> ret]
         ELSE [node |-> [nd EXCEPT ![p.call.num].pc = "up"],
               pool_ret |-> [op |-> "disconnect", arg |-> nd[p.call.num].identifier,
                             val |-> val]]
    ELSE [node |-> nd, pool_ret |-> ret]

\* the node side of a step of player g that leaves the nodes as nd: when the
\* step ends the call of g, a disconnect awaiting it goes on
node_resume(g, nd) ==
    LET r == IF player'[g].call.op = "idle"
             THEN disconnect_resume(nd, pool_ret, player[g], p_ret'.val)
             ELSE [node |-> nd, pool_ret |-> pool_ret]
    IN  node' = r.node /\ pool_ret' = r.pool_ret

\* the gateway call of the suspended call of player g has completed; the
\* call runs to its next await or to its end.
voice_returns(g) ==
    /\ player[g].call.stage = "voice"
    /\ LET p  == player[g]
           op == p.call.op
           d  == disconnect_finally(p)
       IN  CASE op = "connect" ->
                  /\ node' = [node EXCEPT ![p.node].players = @ \cup {g}]
                  /\ Finish(g, [p EXCEPT !.is_connected = TRUE, !.destroyed = FALSE],
                            IF p.channel = None THEN "AttributeError" ELSE "ok")
                  /\ UNCHANGED pool_ret
             [] op = "disconnect" ->
                  /\ Finish(g, d.p, IF d.raised # None THEN d.raised ELSE "ok")
                  /\ UNCHANGED <<node, pool_ret>>
             [] op = "destroy" ->
                  LET a == destroy_after_disconnect(g, d.p, d.raised,
                                                    node[p.node].players)
                  IN  IF a # "popped"
                      THEN Finish(g, d.p, a) /\ node_resume(g, node)
                      ELSE /\ IF is_connected(node[p.node])
                              THEN rest_send(g, d.p, p_ret)
                              ELSE Finish(g, [d.p EXCEPT !.destroyed = TRUE], "ok")
                           /\ node_resume(g, [node EXCEPT ![p.node].players = @ \ {g}])
             [] op = "move_to" ->
                  /\ LET p2 == move_to_sync(p, p.call.arg)
                     IN  _dispatch_voice_update(g, p2, p2.voice, p_ret)
                  /\ UNCHANGED <<node, pool_ret>>
             [] op = "on_voice_state_update" ->
                  /\ IF d.raised # None
                     THEN Finish(g, d.p, d.raised)
                     ELSE Finish(g, [d.p EXCEPT !.voice = {}], "ok")
                  /\ UNCHANGED <<node, pool_ret>>
    /\ UNCHANGED <<qvars, lvars, pool>>

\* the player as the suspended call leaves it once its REST request is answered
rest_continue(p, ok) ==
    CASE p.call.op = "set_pause"  -> set_pause_return(p, p.call.arg, ok)
      [] p.call.op = "set_volume" -> set_volume_return(p, p.call.num, ok)
      [] p.call.op = "destroy"    -> [p EXCEPT !.destroyed = ok]
      [] OTHER                    -> p

\* what the call returns once its REST request has succeeded
rest_value(p) ==
    CASE p.call.op = "play"      -> p.current
      [] p.call.op = "seek"      -> "position"
      [] p.call.op = "set_pause" -> IF p.paused THEN "True" ELSE "False"
      [] OTHER                   -> "ok"

\* the REST request of the suspended call of player g is answered: with a
\* status below 300 (ok) or with an error status, raised as NodeRestException
rest_returns(g, ok) ==
    /\ player[g].call.stage = "rest"
    /\ LET p2 == rest_continue(player[g], ok)
       IN  Finish(g, p2, IF ok THEN rest_value(p2) ELSE "NodeRestException")
    /\ node_resume(g, node)
    /\ UNCHANGED <<qvars, lvars, pool>>

\* Player._dispatch_event(event) for an event of class cls: the event object
\* is built first, then a track end other than "replaced" clears the current
\* track, then the event is dispatched to the bot.
_dispatch_event(g, cls, reason) ==
    /\ player[g].made
    /\ LET p  == player[g]
           ev == DsEvent(p, cls)
           r  == [guild |-> g, op |-> "_dispatch_event",
                  arg |-> IF cls = "TrackEndEvent" THEN cls \o ":" \o reason ELSE cls,
                  num |-> 0,
                  val |-> IF ev.raised # None THEN ev.raised ELSE ev.track,
                  sent |-> 0, pre |-> Cached(p)]
       IN  IF ev.raised # None
           THEN /\ p_ret' = r
                /\ UNCHANGED player
           ELSE /\ player' = [player EXCEPT ![g].current =
                                 IF cls = "TrackEndEvent" /\ reason # "replaced"
                                 THEN None ELSE @]
                /\ p_ret' = r
    /\ UNCHANGED <<qvars, lvars, nvars>>

\* a pooled node that has connected: version checked, handshake done
UpNode(identifier) ==
    Node_connect_return(
        ws_connected(_handle_version_check(NewNode(identifier),
                                           <<"4", ".", "0", ".", "0">>).node))

PlayerNext ==
    \/ \E g \in Guilds, ch \in Channels, n \in {0} \cup NodeObjs : Player_init(g, ch, n)
    \/ \E g \in Guilds : connect(g)
    \/ \E g \in Guilds, t \in Tracks : play(g, t)
    \/ \E g \in Guilds : stop(g)
    \/ \E g \in Guilds, position \in Positions : seek(g, position)
    \/ \E g \in Guilds, pause \in PauseArgs : set_pause(g, pause)
    \/ \E g \in Guilds, volume \in Volumes : set_volume(g, volume)
    \/ \E g \in Guilds, ch \in Channels : move_to(g, ch)
    \/ \E g \in Guilds : disconnect(g)
    \/ \E g \in Guilds : destroy(g)
    \/ \E g \in Guilds : on_voice_server_update(g)
    \/ \E g \in Guilds, ch \in {None, "ch1"}, token \in BOOLEAN :
          on_voice_state_update(g, ch, token)
    \/ \E g \in Guilds : voice_returns(g)
    \/ \E g \in Guilds, ok \in BOOLEAN : rest_returns(g, ok)
    \/ \E g \in Guilds, cls \in EventClasses, reason \in EndReasons :
          _dispatch_event(g, cls, reason)

(***************************************************************************)
(* Node destruction: Node.disconnect awaits LavalinkWebsocket.disconnect   *)
(* (clients/ws.py).  It is suspended in the destroy() of a player, in the  *)
(* close of the websocket ("ws_close") or in the close of the REST session *)
(* ("session_close"); the calls of the players go on meanwhile.            *)
(***************************************************************************)

\* del self._node.pool._nodes[self._identifier]
PoolDel(pl, nd, identifier) ==
    SelectSeq(pl, LAMBDA k : nd[k].identifier # identifier)

\* the end of LavalinkWebsocket.disconnect: the socket is marked unavailable
\* and the listen task is cancelled
ws_disconnected(nrec) == [nrec EXCEPT !.ws_available = FALSE, !.task = FALSE]

\* Node.disconnect: awaits the socket's disconnect and marks the Node
\* unavailable.
Node_disconnect_return(nrec) == [nrec EXCEPT !.available = FALSE, !.pc = "gone"]

\* disconnect() of a connected node up to its first await: the destroy() of
\* the player in the copy of the player map, or the close of the websocket
Node_disconnect(n) ==
    /\ node[n].pc = "up"
    /\ \A g \in node[n].players : Idle(g)
    /\ IF node[n].players = {}
       THEN /\ node' = [node EXCEPT ![n].pc = "ws_close"]
            /\ UNCHANGED <<player, p_ret>>
       ELSE \E g \in node[n].players :
               /\ player' = [player EXCEPT ![g] =
                                Begin(@, "destroy",
                                      IF @.destroyed THEN "again" ELSE "first",
                                      n, "voice")]
               /\ p_ret' = NoRet
               /\ node' = [node EXCEPT ![n].pc = "destroying"]
    /\ pool_ret' = [op |-> "disconnect", arg |-> node[n].identifier, val |-> "pending"]
    /\ UNCHANGED <<pool, qvars, lvars>>

\* await self._websocket.close() returns
websocket_close_returns(n) ==
    /\ node[n].pc = "ws_close"
    /\ node' = [node EXCEPT ![n].ws_open = FALSE, ![n].pc = "session_close"]
    /\ UNCHANGED <<pool, pool_ret, qvars, lvars, pvars>>

\* await self._session.close() returns; disconnect runs to its end
session_close_returns(n) ==
    /\ node[n].pc = "session_close"
    /\ IF node[n].identifier \notin PoolKeys(pool, node)
       THEN /\ node' = [node EXCEPT ![n].pc = "closed"]
            /\ pool_ret' = [op |-> "disconnect", arg |-> node[n].identifier,
                            val |-> "KeyError"]
            /\ UNCHANGED pool
       ELSE /\ pool' = PoolDel(pool, node, node[n].identifier)
            /\ node' = [node EXCEPT ![n] = Node_disconnect_return(ws_disconnected(@))]
            /\ pool_ret' = [op |-> "disconnect", arg |-> node[n].identifier,
                            val |-> "ok"]
    /\ UNCHANGED <<qvars, lvars, pvars>>

\* the calls of a player that read or change the node's player map or its
\* websocket, next to the steps of the node's disconnect
NodeDownNext ==
    \/ \E g \in Guilds, ch \in Channels, n \in {0} \cup NodeObjs : Player_init(g, ch, n)
    \/ \E g \in Guilds : connect(g)
    \/ \E g \in Guilds, t \in Tracks : play(g, t)
    \/ \E g \in Guilds : disconnect(g)
    \/ \E g \in Guilds : destroy(g)
    \/ \E g \in Guilds : voice_returns(g)
    \/ \E g \in Guilds, ok \in BOOLEAN : rest_returns(g, ok)
    \/ \E n \in NodeObjs : Node_disconnect(n)
    \/ \E n \in NodeObjs : websocket_close_returns(n)
    \/ \E n \in NodeObjs : session_close_returns(n)

\* a pool with one connected node and no player yet
PlayerInit ==
    /\ QueueVarsInit
    /\ ListenVarsInit
    /\ q_cfg = [max_size |-> << >>, overflow |-> TRUE, return_exceptions |-> FALSE]
    /\ pool = <<1>>
    /\ node = [n \in NodeObjs |-> IF n = 1 THEN UpNode("A") ELSE NoNode]
    /\ pool_ret = [op |-> "create_node", arg |-> "A", val |-> "ok"]
    /\ PlayerVarsInit

SpecPlayer == PlayerInit /\ [][PlayerNext]_vars

SpecNodeDown == PlayerInit /\ [][NodeDownNext]_vars

(***************************************************************************)
(* The listen task of a node and the tasks it creates (clients/ws.py).     *)
(* Node 1 is the node that listens; its socket receives frames and can be  *)
(* closed by the remote end.  The event loop runs one task at a time, the  *)
(* one at the head of l_ready, up to its next await; a task suspended in   *)
(* an await is put at the end of l_ready when what it awaits is there.     *)
(***************************************************************************)

\* Bound: the frames the socket receives in one behaviour.
MaxFrames == 2

\* Bound: the times the listen task finds its socket closed in one behaviour.
MaxLosses == 2

\* The frames: the four ops of BaseWebsocketRequest, an event of a type
\* EventOP does not list, an op that is not listed, a text that is not JSON.
\* Every frame with a guildId names the guild of the model's one player.
Frames ==
    {[NoFrame EXCEPT !.op = "ready", !.sid = "s1"],
     [NoFrame EXCEPT !.op = "stats"],
     [NoFrame EXCEPT !.op = "event", !.type = "TrackStartEvent"],
     [NoFrame EXCEPT !.op = "event", !.type = "Unknown"],
     [NoFrame EXCEPT !.op = "playerUpdate", !.pos = 2, !.time = 5],
     [NoFrame EXCEPT !.op = "unknown"],
     [NoFrame EXCEPT !.op = "malformed"]}

\* the guild of the frames
FrameGuild == "g1"

\* EventOP.guildId and PlayerUpdateOP.guildId are declared str: the frame's
\* guild id as the handler holds it.  Node._players is keyed by guild.id, an
\* int.
GuildIdStr(g) == "'" \o g \o "'"

\* Node.get_player: self._players.get(guild_id, None)
get_player(players, guild_id) == IF guild_id \in players THEN guild_id ELSE None

Free(ts) == {t \in TaskIds : ts[t].kind = "none"}

Task(kind, frame, n) ==
    [kind |-> kind, pc |-> "start", frame |-> frame, n |-> n, guild |-> None,
     current |-> FALSE]

\* self._loop.create_task for each of recs in turn: each task gets a free id
\* and is put at the end of the queue of ready tasks
RECURSIVE create_task(_, _, _)
create_task(ts, rd, recs) ==
    IF recs = << >>
    THEN [task |-> ts, ready |-> rd]
    ELSE LET t == CHOOSE t \in Free(ts) : \A u \in Free(ts) : t <= u
         IN  create_task([ts EXCEPT ![t] = Head(recs)], Append(rd, t), Tail(recs))

\* a set of guild ids in the order of the dict (the model has one guild)
RECURSIVE SeqOf(_)
SeqOf(S) == IF S = {} THEN << >>
            ELSE LET g == CHOOSE g \in S : TRUE IN <<g>> \o SeqOf(S \ {g})

\* the task t ends; raised is the exception that ended it, or None
EndTask(ts, t) == [ts EXCEPT ![t] = NoTask]

Raise(log, who, raised) ==
    IF raised = None THEN log
    ELSE [log EXCEPT !.raised = who \o ":" \o raised]

\* a frame is received by the socket of node 1
frame_arrives(f) ==
    /\ l_listen.pc \notin {"none"}
    /\ node[1].ws_open
    /\ l_listen.arrived < MaxFrames
    /\ l_listen' = [l_listen EXCEPT !.inbox = Append(@, f), !.arrived = @ + 1]
    /\ UNCHANGED <<l_ready, l_task, l_log, qvars, nvars, pvars>>

\* the remote end closes the socket of node 1
connection_lost ==
    /\ l_listen.pc \notin {"none"}
    /\ node[1].ws_open
    /\ node' = [node EXCEPT ![1].ws_open = FALSE]
    /\ UNCHANGED <<lvars, qvars, pool, pool_ret, pvars>>

\* there are k task ids free
Room(k) == Cardinality(Free(l_task)) >= k

\* await self._websocket.recv() has a frame to return or ConnectionClosed to
\* raise.  The bounds: the listen task is woken only when there is room for
\* the tasks it will create, and finds its socket closed MaxLosses times.
recv_returns ==
    /\ l_listen.pc = "recv"
    /\ \/ l_listen.inbox # << >> /\ Room(1)
       \/ /\ l_listen.inbox = << >> /\ ~node[1].ws_open
          /\ l_listen.losses < MaxLosses
          /\ Room(Cardinality(Guilds) + 2)
    /\ l_listen' = [l_listen EXCEPT !.pc = "recv:ok"]
    /\ l_ready' = Append(l_ready, ListenTask)
    /\ UNCHANGED <<l_task, l_log, qvars, nvars, pvars>>

\* await asyncio.sleep(retry) is over
sleep_returns ==
    /\ l_listen.pc = "sleep"
    /\ Room(1)
    /\ l_listen' = [l_listen EXCEPT !.pc = "sleep:ok"]
    /\ l_ready' = Append(l_ready, ListenTask)
    /\ UNCHANGED <<l_task, l_log, qvars, nvars, pvars>>

\* what a suspended task awaits is there: the gateway call, the REST answer
\* (ok or an error status), the close of the socket or of the session, the
\* handshake (ok or refused)
await_returns(t, ok) ==
    /\ l_task[t].pc \in {"voice", "rest", "swap_voice", "swap_rest",
                        "ws_close", "session_close", "handshake"}
    /\ ok \/ l_task[t].pc \in {"rest", "swap_voice", "swap_rest", "handshake"}
    /\ l_task' = [l_task EXCEPT ![t].pc = @ \o (IF ok THEN ":ok" ELSE ":err")]
    /\ l_ready' = Append(l_ready, t)
    /\ UNCHANGED <<l_listen, l_log, qvars, nvars, pvars>>

\* a loss handler that destroys no player
LossTasks_no_destroy(players, fallback) ==
    (IF fallback THEN <<Task("switch", NoFrame, 0)>> ELSE << >>)
        \o <<Task("close", NoFrame, 0)>>

\* the tasks the except clause of _listen creates: a destroy() for every
\* player of the node, the node switch if fallback is set, the close of the
\* socket
LossTasks(players, fallback) ==
    [i \in 1..Len(SeqOf(players)) |->
        [Task("destroy", NoFrame, 0) EXCEPT !.guild = SeqOf(players)[i]]]
        \o (IF fallback THEN <<Task("switch", NoFrame, 0)>> ELSE << >>)
        \o <<Task("close", NoFrame, 0)>>

\* a listen task that makes one reconnect attempt and no more
retry_once(listen, nrec) == ~is_connected(nrec) /\ listen.losses <= 1

\* _listen after its sleep: "if not self.is_connected", whatever the number
\* of attempts made
retry(listen, nrec) == ~is_connected(nrec)

\* a socket that hands over the frame received last
recv_newest(listen) ==
    [frame |-> listen.inbox[Len(listen.inbox)], n |-> listen.arrived,
     inbox |-> SubSeq(listen.inbox, 1, Len(listen.inbox) - 1)]

\* self._websocket.recv(): the oldest frame not yet handed over, with its
\* number in the order of arrival
recv(listen) ==
    [frame |-> Head(listen.inbox), n |-> listen.arrived - Len(listen.inbox) + 1,
     inbox |-> Tail(listen.inbox)]

\* LavalinkWebsocket._listen from the return of an await to the next await
listen_runs ==
    /\ l_ready # << >> /\ Head(l_ready) = ListenTask
    /\ IF l_listen.pc = "recv:ok"
       THEN IF l_listen.inbox # << >>
            THEN LET f == recv(l_listen).frame
                     n == recv(l_listen).n
                 IN  IF f.op = "malformed"
                     THEN /\ l_listen' = [l_listen EXCEPT !.pc = "dead", !.loops = @ - 1,
                                                          !.inbox = recv(l_listen).inbox]
                          /\ l_ready' = Tail(l_ready)
                          /\ l_log' = Raise(l_log, "listen", "JSONDecodeError")
                          /\ UNCHANGED l_task
                     ELSE /\ LET c == create_task(l_task, Tail(l_ready),
                                                  <<Task("handler", f, n)>>)
                             IN  l_task' = c.task /\ l_ready' = c.ready
                          /\ l_listen' = [l_listen EXCEPT !.pc = "recv",
                                                          !.inbox = recv(l_listen).inbox]
                          /\ UNCHANGED l_log
            ELSE LET new == LossTasks(node[1].players, l_listen.fallback)
                 IN  /\ LET c == create_task(l_task, Tail(l_ready), new)
                        IN  l_task' = c.task /\ l_ready' = c.ready
                     /\ l_listen' = [l_listen EXCEPT !.pc = "sleep", !.losses = @ + 1]
                     /\ l_log' = [l_log EXCEPT !.lost = TRUE, !.live = node[1].players,
                                               !.called = {}, !.attempt = "none"]
       ELSE /\ l_listen.pc = "sleep:ok"
            /\ IF retry(l_listen, node[1])
               THEN /\ LET c == create_task(l_task, Tail(l_ready),
                                            <<Task("connect", NoFrame, 0)>>)
                       IN  l_task' = c.task /\ l_ready' = c.ready
                    /\ l_log' = [l_log EXCEPT !.attempt = "created"]
               ELSE /\ l_ready' = Tail(l_ready)
                    /\ UNCHANGED <<l_task, l_log>>
            /\ l_listen' = [l_listen EXCEPT !.pc = "recv"]
    /\ UNCHANGED <<qvars, nvars, pvars>>

Running(t, kind) == l_ready # << >> /\ Head(l_ready) = t /\ l_task[t].kind = kind

\* the running task t ends
Ends(t) ==
    /\ l_task' = EndTask(l_task, t)
    /\ l_ready' = Tail(l_ready)

\* the running task t is suspended in the await pc
Suspends(t, pc) ==
    /\ l_task' = [l_task EXCEPT ![t].pc = pc]
    /\ l_ready' = Tail(l_ready)

\* the types EventOP accepts
EventOPTypes ==
    {"TrackStartEvent", "TrackEndEvent", "TrackStuckEvent", "TrackExceptionEvent",
     "WebSocketClosedEvent"}

\* _handle_ws_msg on a ready frame: self._session_id of the LavalinkWebsocket
ready_session(nrec, sid) == [nrec EXCEPT !.ws_session_id = sid]

\* what _handle_ws_msg does with the frame f before its first await, as
\* [raised, forwarded]: model_validate of the op and of the frame, then for
\* an event and a playerUpdate the lookup of the player and the call of
\* player._dispatch_event, for a playerUpdate with the unbound name event
handle_frame(f, players) ==
    LET found == get_player(players, GuildIdStr(FrameGuild))
    IN  CASE f.op \in {"ready", "stats"} -> [raised |-> None, forwarded |-> FALSE]
          [] f.op = "event" /\ f.type \notin EventOPTypes ->
                [raised |-> "ValidationError", forwarded |-> FALSE]
          [] f.op = "event" /\ f.type \in EventOPTypes ->
                IF found = None
                THEN [raised |-> "AttributeError", forwarded |-> FALSE]
                ELSE [raised |-> "AttributeError", forwarded |-> TRUE]
          [] f.op = "playerUpdate" ->
                IF found = None
                THEN [raised |-> "AttributeError", forwarded |-> FALSE]
                ELSE [raised |-> "UnboundLocalError", forwarded |-> FALSE]
          [] OTHER -> [raised |-> "ValidationError", forwarded |-> FALSE]

\* LavalinkWebsocket._handle_ws_msg(data) as a task, from its start or from
\* the answer to the request of Node._configure_resuming
handler_runs(t) ==
    /\ Running(t, "handler")
    /\ LET f    == l_task[t].frame
           h    == handle_frame(f, node[1].players)
           log1 == [l_log EXCEPT
                       !.started = Append(@, l_task[t].n),
                       !.last = [op |-> f.op, type |-> f.type, pos |-> f.pos,
                                 time |-> f.time,
                                 registered |-> FrameGuild \in node[1].players,
                                 forwarded |-> h.forwarded, raised |-> h.raised]]
       IN  CASE l_task[t].pc = "rest:ok" ->
                  Ends(t) /\ UNCHANGED <<l_log, node>>
             [] l_task[t].pc = "rest:err" ->
                  /\ Ends(t)
                  /\ l_log' = Raise(l_log, "handler", "NodeRestException")
                  /\ UNCHANGED node
             [] l_task[t].pc = "start" /\ f.op = "ready" ->
                  /\ node' = [node EXCEPT ![1] = ready_session(@, f.sid)]
                  /\ IF ~l_listen.resume_key
                     THEN Ends(t) /\ l_log' = log1
                     ELSE IF send_check(node[1].available, FALSE) = "NodeNotAvailable"
                     THEN /\ Ends(t)
                          /\ l_log' = Raise(log1, "handler", "NodeNotAvailable")
                     ELSE Suspends(t, "rest") /\ l_log' = log1
             [] l_task[t].pc = "start" /\ f.op # "ready" ->
                  /\ Ends(t)
                  /\ l_log' = Raise(log1, "handler", h.raised)
                  /\ UNCHANGED node
    /\ UNCHANGED <<l_listen, qvars, pool, pool_ret, pvars>>

\* a destroy() returns: the task of the loss handler ends; the disconnect()
\* of the node that awaits it in its loop (one player, so the loop is over)
\* goes on to close the socket
Destroyed(t) ==
    IF l_task[t].kind = "destroy" THEN Ends(t) ELSE Suspends(t, "ws_close")

\* Player.destroy() as a task of the loss handler, or awaited by the
\* disconnect() of the node: disconnect() with its gateway call, the removal
\* from the map of the player's node, the REST request
destroy_runs(t) ==
    /\ \/ Running(t, "destroy")
       \/ Running(t, "disconnect") /\ l_task[t].pc \in {"voice:ok", "rest:ok", "rest:err"}
    /\ LET g == l_task[t].guild
           p == player[g]
           d == disconnect_finally(p)
           a == destroy_after_disconnect(g, d.p, d.raised, node[p.node].players)
       IN  CASE l_task[t].pc = "start" ->
                  /\ Suspends(t, "voice")
                  /\ l_log' = [l_log EXCEPT !.called = @ \cup {g}]
                  /\ UNCHANGED <<node, player>>
             [] l_task[t].pc = "voice:ok" /\ a # "popped" ->
                  /\ Ends(t)
                  /\ l_log' = Raise(l_log, "destroy", a)
                  /\ player' = [player EXCEPT ![g] = d.p]
                  /\ UNCHANGED node
             [] l_task[t].pc = "voice:ok" /\ a = "popped" ->
                  /\ node' = [node EXCEPT ![p.node].players = @ \ {g}]
                  /\ IF ~is_connected(node[p.node])
                     THEN /\ Destroyed(t)
                          /\ player' = [player EXCEPT ![g] = [d.p EXCEPT !.destroyed = TRUE]]
                          /\ UNCHANGED l_log
                     ELSE IF send_check(node[p.rest].available, FALSE) = "NodeNotAvailable"
                     THEN /\ Ends(t)
                          /\ l_log' = Raise(l_log, "destroy", "NodeNotAvailable")
                          /\ player' = [player EXCEPT ![g] = d.p]
                     ELSE /\ Suspends(t, "rest")
                          /\ player' = [player EXCEPT ![g] = d.p]
                          /\ UNCHANGED l_log
             [] l_task[t].pc = "rest:ok" ->
                  /\ Destroyed(t)
                  /\ player' = [player EXCEPT ![g].destroyed = TRUE]
                  /\ UNCHANGED <<l_log, node>>
             [] l_task[t].pc = "rest:err" ->
                  /\ Ends(t)
                  /\ l_log' = Raise(l_log, "destroy", "NodeRestException")
                  /\ UNCHANGED <<node, player>>
    /\ UNCHANGED <<l_listen, qvars, pool, pool_ret, p_ret>>

\* self._task.cancel(): a listen task that has not ended is cancelled
task_cancel(listen) ==
    IF listen.pc \in {"dead", "none", "cancelled"} THEN listen
    ELSE [listen EXCEPT !.pc = "cancelled", !.loops = @ - 1]

\* Player._swap_node up to its first request: del self._node._players[guild],
\* then self._node = new_node and self._node._players[guild] = self
_swap_node(nd, p, g, new) ==
    [[nd EXCEPT ![p.node].players = @ \ {g}] EXCEPT ![new].players = @ \cup {g}]

\* the step of a node switch ends the task with the exception raised
SwitchRaises(t, raised) ==
    /\ Ends(t)
    /\ l_log' = Raise(l_log, "switch", raised)

\* LavalinkWebsocket._handle_node_switch as a task: the choice of the new
\* node, _swap_node for the player of the node, then disconnect()
switch_runs(t) ==
    /\ Running(t, "switch")
    /\ LET nodes == {pool[k] : k \in {k \in 1..Len(pool) : is_connected(node[pool[k]])}}
           g     == l_task[t].guild
       IN  CASE l_task[t].pc = "start" /\ nodes = {} ->
                  /\ SwitchRaises(t, "IndexError")
                  /\ UNCHANGED <<l_listen, node, pool, player>>
             [] l_task[t].pc = "start" /\ nodes # {} /\ node[1].players = {} ->
                  /\ Suspends(t, "ws_close")
                  /\ UNCHANGED <<l_listen, l_log, node, pool, player>>
             [] l_task[t].pc = "start" /\ nodes # {} /\ node[1].players # {} ->
                  \E new \in nodes, h \in node[1].players :
                     LET p == player[h]
                     IN  IF h \notin node[p.node].players
                         THEN /\ SwitchRaises(t, "KeyError")
                              /\ UNCHANGED <<l_listen, node, pool, player>>
                         ELSE /\ node' = _swap_node(node, p, h, new)
                              /\ player' = [player EXCEPT ![h].node = new]
                              /\ IF voice_update_data(p.voice) = "KeyError"
                                 THEN SwitchRaises(t, "KeyError")
                                 ELSE IF send_check(node[p.rest].available, FALSE)
                                            = "NodeNotAvailable"
                                 THEN SwitchRaises(t, "NodeNotAvailable")
                                 ELSE /\ l_task' = [l_task EXCEPT
                                            ![t].pc = "swap_voice", ![t].guild = h,
                                            ![t].current = p.current # None]
                                      /\ l_ready' = Tail(l_ready)
                                      /\ UNCHANGED l_log
                              /\ UNCHANGED <<l_listen, pool>>
             [] l_task[t].pc \in {"swap_voice:err", "swap_rest:err"} ->
                  /\ SwitchRaises(t, "NodeRestException")
                  /\ UNCHANGED <<l_listen, node, pool, player>>
             [] l_task[t].pc = "swap_voice:ok" ->
                  /\ IF "event" \notin player[g].voice
                     THEN SwitchRaises(t, "KeyError")
                     ELSE IF ~l_task[t].current
                     THEN SwitchRaises(t, "UnboundLocalError")
                     ELSE IF send_check(node[player[g].rest].available, FALSE)
                                = "NodeNotAvailable"
                     THEN SwitchRaises(t, "NodeNotAvailable")
                     ELSE Suspends(t, "swap_rest") /\ UNCHANGED l_log
                  /\ UNCHANGED <<l_listen, node, pool, player>>
             [] l_task[t].pc = "swap_rest:ok" ->
                  /\ Suspends(t, "ws_close")
                  /\ UNCHANGED <<l_listen, l_log, node, pool, player>>
             [] l_task[t].pc = "ws_close:ok" ->
                  /\ Suspends(t, "session_close")
                  /\ node' = [node EXCEPT ![1].ws_open = FALSE]
                  /\ UNCHANGED <<l_listen, l_log, pool, player>>
             [] l_task[t].pc = "session_close:ok" ->
                  IF node[1].identifier \notin PoolKeys(pool, node)
                  THEN /\ SwitchRaises(t, "KeyError")
                       /\ UNCHANGED <<l_listen, node, pool, player>>
                  ELSE /\ l_task' = EndTask(l_task, t)
                       /\ l_ready' = SelectSeq(Tail(l_ready), LAMBDA u : u # ListenTask)
                       /\ pool' = PoolDel(pool, node, node[1].identifier)
                       /\ node' = [node EXCEPT ![1] = ws_disconnected(@)]
                       /\ l_listen' = task_cancel(l_listen)
                       /\ UNCHANGED <<l_log, player>>
    /\ UNCHANGED <<qvars, pool_ret, p_ret>>

\* self._websocket.close() as a task: the close of the socket that was lost
close_runs(t) ==
    /\ Running(t, "close")
    /\ IF l_task[t].pc = "start" THEN Suspends(t, "ws_close") ELSE Ends(t)
    /\ UNCHANGED <<l_listen, l_log, qvars, nvars, pvars>>

\* a connect that starts a listen task whenever it has connected
start_listen_always(listen) == [listen EXCEPT !.loops = @ + 1]

\* connect after its handshake: "if not self._task" a listen task is created;
\* self._task, once set, is a Task object whatever has become of the task.
\* loops counts the listen tasks that have not ended.
start_listen(listen) ==
    IF listen.pc = "none" THEN [listen EXCEPT !.pc = "recv", !.loops = @ + 1]
    ELSE listen

\* LavalinkWebsocket.connect(reconnect=True) as a task: the handshake, then
\* the new socket is kept and the client marked available; the listen task
\* is created only if self._task is not set
connect_runs(t) ==
    /\ Running(t, "connect")
    /\ CASE l_task[t].pc = "start" ->
               /\ Suspends(t, "handshake")
               /\ l_log' = [l_log EXCEPT !.attempt = "started"]
               /\ UNCHANGED <<l_listen, node>>
         [] l_task[t].pc = "handshake:ok" ->
               /\ Ends(t)
               /\ node' = [node EXCEPT ![1].ws_open = TRUE, ![1].ws_available = TRUE]
               /\ l_listen' = start_listen(l_listen)
               /\ l_log' = [l_log EXCEPT !.attempt = "ok"]
         [] l_task[t].pc = "handshake:err" ->
               /\ Ends(t)
               /\ l_log' = Raise([l_log EXCEPT !.attempt = "failed"],
                                 "connect", "NodeConnectionFailure")
               /\ UNCHANGED <<l_listen, node>>
    /\ UNCHANGED <<qvars, pool, pool_ret, pvars>>

\* the player of guild g as connect() and play() leave it on node n
LivePlayer(n, current) ==
    [NewPlayer(n, "ch1") EXCEPT !.is_connected = TRUE, !.current = current,
                                !.voice = {"event", "sessionId"}]

\* node 1 ("A") is connected and listens, with or without a resume key and
\* the fallback option; a second node "B" is pooled and connected or there
\* is none; the guild has no player, or one on node 1 with or without a
\* current track
ListenInit ==
    /\ QueueVarsInit
    /\ q_cfg = [max_size |-> << >>, overflow |-> TRUE, return_exceptions |-> FALSE]
    /\ \E second \in BOOLEAN, registered \in BOOLEAN, current \in {None, "a"} :
          /\ pool = IF second THEN <<1, 2>> ELSE <<1>>
          /\ node = [n \in NodeObjs |->
                        IF n = 1
                        THEN [UpNode("A") EXCEPT
                                 !.players = IF registered THEN {FrameGuild} ELSE {}]
                        ELSE IF n = 2 /\ second THEN UpNode("B") ELSE NoNode]
          /\ player = [g \in Guilds |->
                          IF registered THEN LivePlayer(1, current) ELSE NoPlayer]
          /\ registered \/ current = None
    /\ pool_ret = [op |-> "create_node", arg |-> "A", val |-> "ok"]
    /\ p_ret = NoRet
    /\ \E resume_key \in BOOLEAN, fallback \in BOOLEAN :
          l_listen = [NoListen EXCEPT !.pc = "recv", !.loops = 1,
                                      !.resume_key = resume_key,
                                      !.fallback = fallback]
    /\ l_ready = << >>
    /\ l_task = [t \in TaskIds |-> NoTask]
    /\ l_log = NoLog

\* the steps of the event loop once the socket is lost
LossNext ==
    \/ connection_lost
    \/ recv_returns
    \/ sleep_returns
    \/ \E t \in TaskIds, ok \in BOOLEAN : await_returns(t, ok)
    \/ listen_runs
    \/ \E t \in TaskIds : destroy_runs(t)
    \/ \E t \in TaskIds : switch_runs(t)
    \/ \E t \in TaskIds : close_runs(t)
    \/ \E t \in TaskIds : connect_runs(t)

\* the steps of the event loop while frames arrive
ListenNext ==
    \/ \E f \in Frames : frame_arrives(f)
    \/ recv_returns
    \/ listen_runs
    \/ \E t \in TaskIds : handler_runs(t)
    \/ \E t \in TaskIds, ok \in BOOLEAN : await_returns(t, ok)

SpecListen == ListenInit /\ [][ListenNext]_vars

SpecLoss == ListenInit /\ [][LossNext]_vars

\* the steps the event loop, the timers and the peers take on their own:
\* all but the loss of the socket
LossProgress ==
    \/ recv_returns
    \/ sleep_returns
    \/ \E t \in TaskIds, ok \in BOOLEAN : await_returns(t, ok)
    \/ listen_runs
    \/ \E t \in TaskIds : destroy_runs(t)
    \/ \E t \in TaskIds : switch_runs(t)
    \/ \E t \in TaskIds : close_runs(t)
    \/ \E t \in TaskIds : connect_runs(t)

\* the event loop runs the ready tasks, a sleep ends, and what a task awaits
\* is answered or refused in the end
SpecReconnect == ListenInit /\ [][LossNext]_vars /\ WF_vars(LossProgress)

\* the application calls disconnect() on node 1: the call is a task of its
\* own.  The bound MaxTasks: not while the listen task waits to run.
Node_disconnect_called ==
    /\ node[1].pc = "up"
    /\ \A t \in TaskIds : l_task[t].kind # "disconnect"
    /\ Room(1)
    /\ \A i \in 1..Len(l_ready) : l_ready[i] # ListenTask
    /\ LET c == create_task(l_task, l_ready, <<Task("disconnect", NoFrame, 0)>>)
       IN  l_task' = c.task /\ l_ready' = c.ready
    /\ UNCHANGED <<l_listen, l_log, qvars, nvars, pvars>>

\* LavalinkWebsocket.disconnect() of node 1 as a task: the destroy() of the
\* player in the copy of the player map (its steps are those of
\* destroy_runs), the close of the socket and of the session, the removal
\* from the pool, the cancellation of the listen task
disconnect_runs(t) ==
    /\ Running(t, "disconnect")
    /\ l_task[t].pc \in {"start", "ws_close:ok", "session_close:ok"}
    /\ CASE l_task[t].pc = "start" /\ node[1].players = {} ->
               /\ Suspends(t, "ws_close")
               /\ UNCHANGED <<l_listen, node, pool>>
         [] l_task[t].pc = "start" /\ node[1].players # {} ->
               /\ \E h \in node[1].players :
                     l_task' = [l_task EXCEPT ![t].pc = "voice", ![t].guild = h]
               /\ l_ready' = Tail(l_ready)
               /\ UNCHANGED <<l_listen, node, pool>>
         [] l_task[t].pc = "ws_close:ok" ->
               /\ Suspends(t, "session_close")
               /\ node' = [node EXCEPT ![1].ws_open = FALSE]
               /\ UNCHANGED <<l_listen, pool>>
         [] l_task[t].pc = "session_close:ok" ->
               IF node[1].identifier \notin PoolKeys(pool, node)
               THEN /\ Ends(t)
                    /\ UNCHANGED <<l_listen, node, pool>>
               ELSE /\ l_task' = EndTask(l_task, t)
                    /\ l_ready' = SelectSeq(Tail(l_ready), LAMBDA u : u # ListenTask)
                    /\ pool' = PoolDel(pool, node, node[1].identifier)
                    /\ node' = [node EXCEPT ![1] =
                                   Node_disconnect_return(ws_disconnected(@))]
                    /\ l_listen' = task_cancel(l_listen)
    /\ UNCHANGED <<l_log, qvars, pool_ret, pvars>>

\* node 1 alone in the pool, without the fallback option and without
\* player (the disconnect() of a node with players is NodeDownNext)
DestroyInit ==
    /\ ListenInit
    /\ Len(pool) = 1
    /\ ~l_listen.fallback
    /\ node[1].players = {}

\* frames, losses and reconnects of node 1 while the application destroys it
DestroyNext ==
    \/ \E f \in {f \in Frames : f.op = "stats"} : frame_arrives(f)
    \/ \E t \in TaskIds : handler_runs(t)
    \/ connection_lost
    \/ recv_returns
    \/ sleep_returns
    \/ \E t \in TaskIds, ok \in BOOLEAN : await_returns(t, ok)
    \/ listen_runs
    \/ \E t \in TaskIds : close_runs(t)
    \/ \E t \in TaskIds : connect_runs(t)
    \/ Node_disconnect_called
    \/ \E t \in TaskIds : disconnect_runs(t)

SpecDestroy == DestroyInit /\ [][DestroyNext]_vars

(***************************************************************************)
(* The request of LavalinkRest.update_player.  A dict or the keyword        *)
(* arguments of a model are a function from names to values; values are     *)
(* strings, None is "None".                                                 *)
(***************************************************************************)

\* the fields of UpdatePlayerRequest, noReplase as the source spells it
UpdatePlayerRequest ==
    [method |-> "PATCH", noReplase |-> "False", track |-> None, position |-> "0",
     endTime |-> None, volume |-> None, pause |-> None, filters |-> None,
     voice |-> None]

\* UpdatePlayerRequest.model_validate(data) and UpdatePlayerRequest(**data):
\* the names that are fields are set, any other name is ignored, a field
\* that is not given has its default
model_validate(data) ==
    [fields_set |-> DOMAIN data \cap DOMAIN UpdatePlayerRequest,
     value      |-> [f \in DOMAIN UpdatePlayerRequest |->
                        IF f \in DOMAIN data THEN data[f] ELSE UpdatePlayerRequest[f]]]

\* model_dump(exclude=..., exclude_none=True, exclude_unset=True)
model_dump(m, excluded) ==
    [f \in {f \in m.fields_set \ excluded : m.value[f] # None} |-> m.value[f]]

\* the names update_player excludes from the body
exclude == {"method", "noReplace"}

\* str(b).lower() of a bool
lower(b) == IF b = "True" THEN "true" ELSE "false"

\* what update_player hands to send: the method, the body and the query
update_player_request(data) ==
    LET m == model_validate(data)
    IN  [method |-> m.value.method,
         body   |-> model_dump(m, exclude),
         query  |-> "noReplace=" \o lower(m.value.noReplase)]

\* x or y of Python
Or(x, y) == IF x \in {None, "0", "False"} THEN y ELSE x

\* the model play() builds
play_data(track, start, end, noReplace, volume, self_volume) ==
    [noReplase |-> noReplace, track |-> track, position |-> Or(start, "0"),
     endTime |-> Or(end, None), volume |-> Or(volume, self_volume),
     pause |-> "False"]

\* a dict with the one key k
Dict1(k, v) == [x \in {k} |-> v]

\* the calls of update_player in Player, as [op, data, noReplace]: noReplace
\* is the value the caller gives for the flag, None if it gives none
PlayerCalls ==
    {[op |-> "stop", data |-> Dict1("encodedTrack", None), noReplace |-> None]}
    \cup {[op |-> "play", data |-> play_data(t, s, e, nr, v, "100"), noReplace |-> nr] :
             t \in {"a", "b"}, s \in {"0", "1"}, e \in {None, "0", "2"},
             nr \in {"True", "False"}, v \in {None, "50"}}
    \cup {[op |-> "seek", data |-> Dict1("position", s), noReplace |-> None] :
             s \in {"0", "1"}}
    \cup {[op |-> "set_pause", data |-> Dict1("paused", b), noReplace |-> None] :
             b \in {"True", "False"}}
    \cup {[op |-> "set_volume", data |-> Dict1("volume", v), noReplace |-> None] :
             v \in {"50", "100"}}
    \cup {[op |-> "_dispatch_voice_update", data |-> Dict1("voice", v),
           noReplace |-> None] : v \in {None, "credentials"}}
    \cup {[op |-> "_swap_node", data |-> [position |-> "1", encodedTrack |-> "a"],
           noReplace |-> None]}

\* the values a caller of update_player gives in a dict, by key
DictValues ==
    [volume |-> {None, "50"}, pause |-> {None, "True"}, endTime |-> {None, "2"},
     noReplace |-> {"True", "False"}]

\* direct calls of update_player with a dict
DictCalls ==
    {[op |-> "update_player", data |-> d,
      noReplace |-> IF "noReplace" \in DOMAIN d THEN d.noReplace ELSE None] :
        d \in UNION {{d \in [S -> UNION {DictValues[k] : k \in DOMAIN DictValues}] :
                          \A k \in S : d[k] \in DictValues[k]} :
                     S \in SUBSET DOMAIN DictValues}}

\* LavalinkRest.update_player called with c.data: p_ret holds the call and
\* the request made
update_player(c) ==
    /\ p_ret' = [op |-> c.op, data |-> c.data, noReplace |-> c.noReplace,
                 request |-> update_player_request(c.data)]
    /\ UNCHANGED <<player, qvars, nvars, lvars>>

RequestInit ==
    /\ QueueVarsInit
    /\ q_cfg = [max_size |-> << >>, overflow |-> TRUE, return_exceptions |-> FALSE]
    /\ pool = << >>
    /\ node = [n \in NodeObjs |-> NoNode]
    /\ pool_ret = [op |-> "none", arg |-> None, val |-> None]
    /\ player = [g \in Guilds |-> NoPlayer]
    /\ p_ret = NoRet
    /\ ListenVarsInit

RequestNext == \E c \in PlayerCalls \cup DictCalls : update_player(c)

SpecRequest == RequestInit /\ [][RequestNext]_vars

(***************************************************************************)
(* The pool lookups as functions of the pool: three pooled nodes A, B, C,  *)
(* each available or not (a pooled Node is unavailable once disconnected)  *)
(* and each holding 0..MaxCount players.                                   *)
(***************************************************************************)
GuildIds == <<"g1", "g2", "g3", "g4", "g5", "g6", "g7", "g8">>

PlayerSet(k) == {GuildIds[i] : i \in 1..k}

PoolIdents == <<"A", "B", "C">>

PoolInit ==
    /\ QueueVarsInit
    /\ ListenVarsInit
    /\ q_cfg = [max_size |-> << >>, overflow |-> TRUE, return_exceptions |-> FALSE]
    /\ PlayerVarsInit
    /\ pool = <<1, 2, 3>>
    /\ \E av \in [1..3 -> BOOLEAN], cnt \in [1..3 -> 0..MaxCount] :
          node = [n \in NodeObjs |->
                    IF n <= 3
                    THEN [UpNode(PoolIdents[n]) EXCEPT !.available = av[n],
                                                       !.players = PlayerSet(cnt[n])]
                    ELSE NoNode]
    /\ pool_ret = [op |-> "init", arg |-> None, val |-> None]

SpecPool == PoolInit /\ [][LookupNext]_vars

(***************************************************************************)
(* The version check as a function of the version string: a created node,  *)
(* marked available or not, is handed each version string in turn.         *)
(***************************************************************************)
VersionInit ==
    /\ QueueVarsInit
    /\ ListenVarsInit
    /\ q_cfg = [max_size |-> << >>, overflow |-> TRUE, return_exceptions |-> FALSE]
    /\ PlayerVarsInit
    /\ pool = << >>
    /\ \E available \in BOOLEAN :
          node = [n \in NodeObjs |->
                    IF n = 1 THEN [NewNode("A") EXCEPT !.available = available]
                    ELSE NoNode]
    /\ \E version \in VersionStrings :
          pool_ret = [op |-> "version", arg |-> version, val |-> None]

\* await self._node._handle_version_check(version=version) in connect
version_check ==
    /\ pool_ret.op = "version"
    /\ LET r == _handle_version_check(node[1], pool_ret.arg)
       IN  /\ node' = [node EXCEPT ![1] = r.node]
           /\ pool_ret' = [op  |-> "_handle_version_check",
                           arg |-> pool_ret.arg,
                           val |-> IF r.raised # None THEN r.raised
                                   ELSE IF r.warned THEN "warn" ELSE "ok"]
    /\ UNCHANGED <<pool, qvars, lvars, pvars>>

VersionNext == version_check

SpecVersion == VersionInit /\ [][VersionNext]_vars

QueueInit == QueueVarsInit /\ NodeVarsInit /\ PlayerVarsInit /\ ListenVarsInit

SpecQueue == QueueInit /\ [][QueueNext]_vars

SpecQueueAll == QueueInit /\ [][QueueAllNext]_vars

Init ==
    /\ QueueVarsInit
    /\ ListenVarsInit
    /\ q_cfg = [max_size |-> << >>, overflow |-> TRUE, return_exceptions |-> FALSE]
    /\ NodeVarsInit
    /\ PlayerVarsInit

Next == NodeNext

Spec == Init /\ [][Next]_vars

(***************************************************************************)
(* C1: on a fresh strict queue with loop mode none, after put(a); put(b);  *)
(* put(c) the successive next() calls return a, b, c and the one after     *)
(* them fails with QueueEmpty.                                             *)
(***************************************************************************)
C1_NextYieldsInOrder ==
    /\ (q_script.pos >= 4 => q_script.vals[1] = "a")
    /\ (q_script.pos >= 5 => q_script.vals[2] = "b")
    /\ (q_script.pos >= 6 => q_script.vals[3] = "c")
    /\ (q_script.pos >= 7 => q_script.vals[4] = "QueueEmpty")

(***************************************************************************)
(* C11: in track-loop mode next() makes the head of the queue the current  *)
(* item, and from then on every get() returns the current item and leaves  *)
(* the current item and the queue as they are.                             *)
(***************************************************************************)
C11_TrackLoopGetRepeats ==
    [][/\ (q_loop = "track" /\ q_queue # << >> /\ q_ret'.op = "next") =>
             q_current' = q_queue[1]
       /\ (q_loop = "track" /\ q_current # None /\ q_ret'.op = "get") =>
             /\ q_ret'.val = q_current
             /\ q_current' = q_current
             /\ q_queue' = q_queue
             /\ q_loop' = q_loop]_vars

C11_GetReturnedCurrent ==
    /\ q_loop = "track" /\ q_ret.op = "get"
    /\ q_ret.val = "a" /\ q_current = "a"
    /\ q_queue = <<"c">>

(***************************************************************************)
(* C12: in queue-loop mode next() on a non-empty queue leaves the queue    *)
(* contents as they are and moves the current item one position on, from   *)
(* the last position (or from no position) to the first.                   *)
(***************************************************************************)
C12_QueueLoopCycles ==
    [][(q_loop = "queue" /\ q_queue # << >> /\ q_ret'.op = "next") =>
          LET at == {i \in 1..Len(q_queue) : q_queue[i] = q_current}
          IN  /\ q_queue' = q_queue
              /\ q_current' \in
                    IF at = {}
                    THEN {q_queue[1]}
                    ELSE {q_queue[(i % Len(q_queue)) + 1] : i \in at}]_vars

(***************************************************************************)
(* C13: shuffle() of a non-empty queue returns without raising and leaves  *)
(* the current item at the front of the queue.                             *)
(***************************************************************************)
C13_ShuffleKeepsCurrentFirst ==
    (q_ret.op = "shuffle" /\ q_queue # << >>) =>
        (q_ret.val = None /\ q_queue[1] = q_current)

(***************************************************************************)
(* C14: a queue built with max_size m never holds more than m items.       *)
(***************************************************************************)
C14_NeverOverMaxSize ==
    q_cfg.max_size # << >> => Len(q_queue) <= q_cfg.max_size[1]

C16_PrevStepsBack ==
    [][(q_queue # << >> /\ q_ret'.op = "prev") =>
          LET at == {i \in 1..Len(q_queue) : q_queue[i] = q_current}
          IN  /\ at = {} =>
                    (q_current' = q_queue[1] /\ q_ret'.val = q_queue[1])
              /\ (at # {} /\ 1 \notin at) =>
                    \E i \in at :
                        /\ q_current' = q_queue[i - 1]
                        /\ q_ret'.val = q_queue[i - 1]]_vars

(***************************************************************************)
(* C17: a REST send on a node that is not marked available, made without   *)
(* the bypass flag, ends with NodeNotAvailable before any request; on an   *)
(* available node, or with the bypass flag, the request is made.           *)
(***************************************************************************)
C17_SendNeedsAvailableOrBypass ==
    \A n \in NodeObjs :
        (node[n] # NoNode /\ node[n].identifier = pool_ret.arg) =>
            /\ pool_ret.op = "send" =>
                  pool_ret.val = IF node[n].available THEN "request"
                                                      ELSE "NodeNotAvailable"
            /\ pool_ret.op = "send_ignore_if_available" =>
                  pool_ret.val = "request"

C17_BypassOnUnavailable ==
    /\ pool_ret.op = "send_ignore_if_available"
    /\ pool_ret.val = "request"
    /\ \E n \in NodeObjs : /\ node[n] # NoNode
                            /\ node[n].identifier = pool_ret.arg
                            /\ ~node[n].available

C19_LeadingIntegers ==
    pool_ret.op = "_handle_version_check" =>
        LET s == pool_ret.arg
            n1 == DigitRun(s, 1)
            dot2 == n1 + 1 <= Len(s) /\ s[n1 + 1] = "." /\ DigitRun(s, n1 + 2) > 0
            n2 == IF dot2 THEN DigitRun(s, n1 + 2) ELSE 0
            e2 == IF dot2 THEN n1 + 1 + n2 ELSE n1
            dot3 == dot2 /\ e2 + 1 <= Len(s) /\ s[e2 + 1] = "." /\ DigitRun(s, e2 + 2) > 0
            n3 == IF dot3 THEN DigitRun(s, e2 + 2) ELSE 0
            e3 == IF dot3 THEN e2 + 1 + n3 ELSE e2
            form == n1 > 0 /\ \A i \in (e3 + 1)..Len(s) : s[i] # "."
        IN  /\ form =>
                  node[1].version =
                      <<Num(SubSeq(s, 1, n1)),
                        Num(SubSeq(s, n1 + 2, n1 + 1 + n2)),
                        Num(SubSeq(s, e2 + 2, e2 + 1 + n3))>>
            /\ endswith_SNAPSHOT(s) => node[1].version[1] = 4

(***************************************************************************)
(* C19 amended: a version string ending in -SNAPSHOT is given the version  *)
(* 4.0.0 whatever it starts with; every other string that is X, X.Y or     *)
(* X.Y.Z followed by an optional suffix is parsed to its leading integers, *)
(* 0 for an absent one.                                                    *)
(***************************************************************************)
C19_LeadingIntegersUnlessSnapshot ==
    pool_ret.op = "_handle_version_check" =>
        LET s == pool_ret.arg
            n1 == DigitRun(s, 1)
            dot2 == n1 + 1 <= Len(s) /\ s[n1 + 1] = "." /\ DigitRun(s, n1 + 2) > 0
            n2 == IF dot2 THEN DigitRun(s, n1 + 2) ELSE 0
            e2 == IF dot2 THEN n1 + 1 + n2 ELSE n1
            dot3 == dot2 /\ e2 + 1 <= Len(s) /\ s[e2 + 1] = "." /\ DigitRun(s, e2 + 2) > 0
            n3 == IF dot3 THEN DigitRun(s, e2 + 2) ELSE 0
            e3 == IF dot3 THEN e2 + 1 + n3 ELSE e2
            form == n1 > 0 /\ \A i \in (e3 + 1)..Len(s) : s[i] # "."
        IN  /\ (form /\ ~endswith_SNAPSHOT(s)) =>
                  node[1].version =
                      <<Num(SubSeq(s, 1, n1)),
                        Num(SubSeq(s, n1 + 2, n1 + 1 + n2)),
                        Num(SubSeq(s, e2 + 2, e2 + 1 + n3))>>
            /\ endswith_SNAPSHOT(s) => node[1].version = <<4, 0, 0>>

C19_MinorWithSuffix ==
    /\ pool_ret.op = "_handle_version_check"
    /\ pool_ret.arg = <<"4", "0", ".", "7", "b", "3">>
    /\ node[1].version = <<40, 7, 0>>

(***************************************************************************)
(* C20: the disconnect of a node starts to close the websocket only when   *)
(* no player is registered on the node any more, and when it completes the *)
(* node has no registered player, is not in the pool and is not marked     *)
(* available.                                                              *)
(***************************************************************************)
C20_NodeGoneWithoutPlayers ==
    [][\A n \in NodeObjs :
          /\ (node[n].pc # "ws_close" /\ node'[n].pc = "ws_close") =>
                node'[n].players = {}
          /\ (node[n].pc # "gone" /\ node'[n].pc = "gone") =>
                /\ node'[n].players = {}
                /\ \A k \in 1..Len(pool') : pool'[k] # n
                /\ ~node'[n].available
                /\ ~node'[n].ws_open]_vars

\* the positions in the pool of the nodes marked available
Available == {k \in 1..Len(pool) : node[pool[k]].available}

\* what a REST request raises when it is not sent or is answered with an error
RestErrors == {"NodeRestException", "NodeNotAvailable"}

(***************************************************************************)
(* C2: while play(track) is suspended on its REST request the player's     *)
(* current track is `track`, and a track-start event handled meanwhile     *)
(* is emitted with that track.                                             *)
(***************************************************************************)
C2_PlaySetsCurrentFirst ==
    \A g \in Guilds :
        (player[g].call.op = "play" /\ player[g].call.stage = "rest") =>
            /\ player[g].current = player[g].call.arg
            /\ ~player[g].paused
            /\ (p_ret.guild = g /\ p_ret.op = "_dispatch_event"
                  /\ p_ret.arg = "TrackStartEvent")
               => p_ret.val = player[g].call.arg

C2_StartEventDuringPlay ==
    \E g \in Guilds :
        /\ player[g].call.op = "play" /\ player[g].call.stage = "rest"
        /\ player[g].call.arg = "c"
        /\ p_ret.guild = g /\ p_ret.op = "_dispatch_event"
        /\ p_ret.arg = "TrackStartEvent" /\ p_ret.val = "c"

(***************************************************************************)
(* C3: a destroy() of a player whose earlier destroy() has completed       *)
(* returns without raising.                                                *)
(***************************************************************************)
C3_SecondDestroyReturns ==
    (p_ret.op = "destroy" /\ p_ret.arg = "again") => p_ret.val = "ok"

(***************************************************************************)
(* C4: once a track-end event with reason "finished" has been dispatched   *)
(* to a player, the player has no current track.                           *)
(***************************************************************************)
C4_TrackEndClearsCurrent ==
    (p_ret.op = "_dispatch_event" /\ p_ret.arg = "TrackEndEvent:finished") =>
        player[p_ret.guild].current = None

(***************************************************************************)
(* C5: a create_node call for an identifier already in the pool raises     *)
(* NodeCreationError and leaves the pool as it was; every Node in the pool *)
(* has completed its connect, so a Node whose connect failed or is still   *)
(* in progress is under no identifier in the pool, and the failure is what *)
(* the call raises.                                                        *)
(***************************************************************************)
C5_NoHalfRegisteredNode ==
    /\ [](/\ \A k \in 1..Len(pool) : node[pool[k]].pc = "up"
          /\ \A n \in NodeObjs :
                node[n].pc \in {"version", "handshake", "failed"} =>
                    \A k \in 1..Len(pool) : pool[k] # n
          /\ \A k, l \in 1..Len(pool) :
                node[pool[k]].identifier = node[pool[l]].identifier => k = l)
    /\ [][/\ (pool_ret'.val = "NodeCreationError" /\ pool_ret' # pool_ret) =>
                /\ pool_ret'.arg \in PoolKeys(pool, node)
                /\ pool' = pool /\ node' = node
          /\ (\E n \in NodeObjs : node[n].pc # "failed" /\ node'[n].pc = "failed") =>
                /\ pool_ret'.val \in {"NodeConnectionFailure",
                                      "LavalinkVersionIncompatible"}
                /\ pool_ret'.arg \notin PoolKeys(pool', node')]_vars

C5_FailedAndDuplicate ==
    /\ pool_ret.val = "NodeCreationError"
    /\ \E n \in NodeObjs :
          node[n].pc = "failed" /\ node[n].identifier \notin PoolKeys(pool, node)

C7_BestNodeByPlayers ==
    (pool_ret.op = "get_best_node" /\ pool_ret.arg = "by_players") =>
        /\ Available = {} => pool_ret.val = "NoNodesAvailable"
        /\ Available # {} =>
              \E k \in Available :
                  /\ node[pool[k]].identifier = pool_ret.val
                  /\ \A l \in Available :
                        Cardinality(node[pool[k]].players)
                            <= Cardinality(node[pool[l]].players)
        /\ (/\ Available = {1, 2, 3}
            /\ Cardinality(node[1].players) = 3
            /\ Cardinality(node[2].players) = 1
            /\ Cardinality(node[3].players) = 5) => pool_ret.val = "B"

C7_SkipsUnavailableMinimum ==
    /\ pool_ret.op = "get_best_node" /\ pool_ret.arg = "by_players"
    /\ Available = {1, 3}
    /\ Cardinality(node[1].players) = 3
    /\ Cardinality(node[2].players) = 1
    /\ Cardinality(node[3].players) = 5
    /\ pool_ret.val = "A"

(***************************************************************************)
(* C8: get_node(identifier) returns the available node with that           *)
(* identifier; it raises NoNodesAvailable when no node is available, and   *)
(* the lookup error (KeyError) when some node is available but none with   *)
(* that identifier; without an identifier it returns an available node.    *)
(***************************************************************************)
C8_GetNode ==
    pool_ret.op = "get_node" =>
        LET ids == {node[pool[k]].identifier : k \in Available}
        IN  /\ Available = {} => pool_ret.val = "NoNodesAvailable"
            /\ (Available # {} /\ pool_ret.arg = None) => pool_ret.val \in ids
            /\ (Available # {} /\ pool_ret.arg \in ids) => pool_ret.val = pool_ret.arg
            /\ (Available # {} /\ pool_ret.arg # None /\ pool_ret.arg \notin ids) =>
                  pool_ret.val = "KeyError"

C8_UnavailableIdentifier ==
    /\ pool_ret.op = "get_node" /\ pool_ret.arg = "B"
    /\ Available = {1, 3}
    /\ pool_ret.val = "KeyError"

C10_CacheUnchangedOnFailure ==
    \A g \in Guilds :
        /\ (player[g].call.op \in {"set_pause", "set_volume", "move_to"}
              /\ player[g].call.stage = "rest")
           => Cached(player[g]) = player[g].call.pre
        /\ (p_ret.guild = g /\ p_ret.op \in {"set_pause", "set_volume", "move_to"}
              /\ p_ret.val \in RestErrors)
           => Cached(player[g]) = p_ret.pre

(***************************************************************************)
(* C10 amended: set_pause and set_volume leave the paused flag, the volume *)
(* and the channel unchanged until their REST request has succeeded, and   *)
(* then set the flag or the volume; move_to sets the channel once the      *)
(* gateway call has returned, before its REST voice update, so a failure   *)
(* of that update leaves the paused flag and the volume unchanged and the  *)
(* channel set to the new channel.                                         *)
(***************************************************************************)
C10_CacheAfterRemoteCall ==
    \A g \in Guilds :
        LET p == player[g]
        IN  /\ (p.call.op \in {"set_pause", "set_volume"} /\ p.call.stage = "rest")
               => Cached(p) = p.call.pre
            /\ (p.call.op = "move_to" /\ p.call.stage = "rest")
               => Cached(p) = [p.call.pre EXCEPT !.channel = p.call.arg]
            /\ (p_ret.guild = g /\ p_ret.op \in {"set_pause", "set_volume"}
                  /\ p_ret.val \in RestErrors)
               => Cached(p) = p_ret.pre
            /\ (p_ret.guild = g /\ p_ret.op = "move_to" /\ p_ret.val \in RestErrors)
               => Cached(p) = [p_ret.pre EXCEPT !.channel = p_ret.arg]
            /\ (p_ret.guild = g /\ p_ret.op = "set_volume" /\ p_ret.val = "ok")
               => Cached(p) = [p_ret.pre EXCEPT !.volume = p_ret.num]
            /\ (p_ret.guild = g /\ p_ret.op = "set_pause"
                  /\ p_ret.val \notin RestErrors)
               => Cached(p) = [p_ret.pre EXCEPT
                                 !.paused = PauseValue(p_ret.arg, p_ret.pre.paused)]

C10_VolumeKeptOnFailure ==
    \E g \in Guilds :
        /\ p_ret.guild = g /\ p_ret.op = "set_volume"
        /\ p_ret.val = "NodeRestException"
        /\ p_ret.num = 50 /\ player[g].volume = 100

(***************************************************************************)
(* C21: two Track objects created one after the other have different ids   *)
(* and compare unequal: no two different tracks held by the queue are      *)
(* equal under Track.__eq__.                                               *)
(***************************************************************************)
C21_DistinctTracksUnequal ==
    \A i, j \in 1..Len(q_queue) :
        q_queue[i] # q_queue[j] => ~TrackEq(q_queue[i], q_queue[j])

(***************************************************************************)
(* C22: while Player._swap_node of a node switch is under way and until    *)
(* the switch ends, the player it moves is in the player map of exactly    *)
(* one Node, whatever the other tasks of the connection-loss handler do.   *)
(***************************************************************************)
C22_SwapKeepsOneMap ==
    \A t \in TaskIds :
        (l_task[t].kind = "switch" /\ l_task[t].guild # None)
            => Cardinality({n \in NodeObjs : l_task[t].guild \in node[n].players}) = 1

(***************************************************************************)
(* C23: when the socket of a node without resume key is lost while players *)
(* are registered, the destroy() of every one of them has started by the   *)
(* time the reconnect attempt is created or started.                       *)
(***************************************************************************)
C23_DestroyBeforeReconnect ==
    (~l_listen.resume_key /\ l_log.attempt \in {"created", "started"})
        => l_log.live \subseteq l_log.called

C23_ReconnectAfterDestroy ==
    /\ ~l_listen.resume_key
    /\ l_log.live # {}
    /\ l_log.called = l_log.live
    /\ l_log.attempt = "started"

(***************************************************************************)
(* C24: with a resume key configured, a connection loss calls destroy() on *)
(* no player of the node.                                                  *)
(***************************************************************************)
C24_ResumeKeyKeepsPlayers ==
    l_listen.resume_key => l_log.called = {}

(***************************************************************************)
(* C25: an event frame of a known type for guild g reaches                 *)
(* _dispatch_event of the player registered under g on the node; with no   *)
(* player registered under g the handler raises nothing.                   *)
(***************************************************************************)
C25_EventReachesPlayer ==
    (l_log.last.op = "event" /\ l_log.last.type \in EventOPTypes)
        => IF l_log.last.registered
           THEN l_log.last.forwarded
           ELSE l_log.last.raised = None

(***************************************************************************)
(* C26: once a playerUpdate frame for guild g is handled, the last         *)
(* position and the last-update time of the player registered under g are  *)
(* those of the frame; with no player registered the handler raises        *)
(* nothing.                                                                *)
(***************************************************************************)
C26_UpdateReachesPlayer ==
    l_log.last.op = "playerUpdate"
        => IF l_log.last.registered
           THEN /\ player[FrameGuild].last_position = l_log.last.pos
                /\ player[FrameGuild].last_update = l_log.last.time
           ELSE l_log.last.raised = None

(***************************************************************************)
(* C27: once a ready frame is handled, Node._session_id, which the paths   *)
(* of the session-scoped REST calls are built from, is the sessionId of    *)
(* the frame.                                                              *)
(***************************************************************************)
C27_ReadySetsNodeSession ==
    node[1].ws_session_id # None => node[1].session_id = node[1].ws_session_id

(***************************************************************************)
(* C28: no frame ends the listen task: not a text that is not JSON, nor an *)
(* unknown op or event type, nor a frame for a guild without player.       *)
(***************************************************************************)
C28_ListenLoopSurvives ==
    l_listen.pc # "dead"

(***************************************************************************)
(* C29: the handlers of the frames start in the order the frames arrived,  *)
(* none left out, and a handler task that is first in the queue of ready   *)
(* tasks can start whatever the handlers before it are suspended in.       *)
(***************************************************************************)
C29_HandlersStartInOrder ==
    /\ \A i \in 1..Len(l_log.started) : l_log.started[i] = i
    /\ \A t \in TaskIds :
          (Running(t, "handler") /\ l_task[t].pc = "start") => ENABLED handler_runs(t)

C29_SecondStartsWhileFirstWaits ==
    /\ l_log.started = <<1, 2>>
    /\ \E t \in TaskIds :
          l_task[t].kind = "handler" /\ l_task[t].n = 1 /\ l_task[t].pc = "rest"


(***************************************************************************)
(* C30: a reconnect attempt that has failed is followed by another one,    *)
(* unless the node is connected by then (within the MaxLosses rounds of    *)
(* the model), with or without the fallback option.                        *)
(***************************************************************************)
C30_FailedAttemptIsRetried ==
    (l_log.attempt = "failed" /\ l_listen.losses < MaxLosses)
        ~> (l_log.attempt = "created" \/ is_connected(node[1]))

(***************************************************************************)
(* C30 as amended: a reconnect attempt that has failed is followed by      *)
(* another one unless the node is connected by then or the listen task has *)
(* been cancelled by the disconnect() of the node, which the node switch   *)
(* of the fallback option calls itself.                                    *)
(***************************************************************************)
C30_FailedAttemptIsRetriedUnlessCancelled ==
    (l_log.attempt = "failed" /\ l_listen.losses < MaxLosses)
        ~> (l_log.attempt = "created" \/ is_connected(node[1])
               \/ l_listen.pc = "cancelled")

C30_SecondAttempt ==
    /\ l_listen.losses = 2
    /\ l_log.attempt = "created"
    /\ l_log.raised = "connect:NodeConnectionFailure"
    /\ l_listen.pc # "cancelled"

(***************************************************************************)
(* C40: a set_pause(p) with p True or False whose REST request succeeds    *)
(* leaves the paused flag equal to p and returns p; set_pause() without    *)
(* argument leaves and returns the negation of the flag it found.          *)
(***************************************************************************)
C40_SetPauseSetsFlag ==
    \A g \in Guilds :
        (p_ret.guild = g /\ p_ret.op = "set_pause" /\ p_ret.val \notin RestErrors)
            => LET want == CASE p_ret.arg = "True"  -> TRUE
                             [] p_ret.arg = "False" -> FALSE
                             [] OTHER               -> ~p_ret.pre.paused
               IN  /\ player[g].paused = want
                   /\ p_ret.val = IF want THEN "True" ELSE "False"

(***************************************************************************)
(* C39: whatever losses and reconnects a node goes through, at most one    *)
(* listen task of the node is running.                                     *)
(***************************************************************************)
C39_OneListenLoop ==
    l_listen.loops <= 1

C39_ReconnectedWithOneLoop ==
    /\ l_log.attempt = "ok"
    /\ is_connected(node[1])
    /\ l_listen.pc \in {"recv", "sleep"}
    /\ l_listen.loops = 1

(***************************************************************************)
(* C31: once the disconnect() of a node has completed, no handler of an    *)
(* inbound frame of the node starts and no reconnect attempt of the node   *)
(* starts.                                                                 *)
(***************************************************************************)
C31_NothingAfterDestroy ==
    [][node[1].pc = "gone"
          => /\ l_log'.started = l_log.started
             /\ \A t \in TaskIds :
                   ~(l_task[t].kind = "connect" /\ l_task[t].pc = "start"
                       /\ l_task'[t].pc = "handshake")]_vars

\* C32: when a node switch completes, the player it migrated is registered
\* in the player map of the node it chose, that node is connected and is not
\* the failed one, and the failed node's map does not hold the player.
C32_SwitchMigratesPlayers ==
    [][\A t \in TaskIds :
          (/\ Running(t, "switch")
           /\ l_task[t].pc = "session_close:ok"
           /\ l_task[t].guild # None
           /\ l_task'[t].kind # "switch"
           /\ l_log'.raised = l_log.raised)
          => LET g   == l_task[t].guild
                 new == player'[g].node
             IN  /\ new # 1
                 /\ is_connected(node'[new])
                 /\ g \in node'[new].players
                 /\ g \notin node'[1].players]_vars

\* C33: while a request of _swap_node is in flight or has been answered,
\* the REST client the player sends through is that of the node the player
\* was swapped to, never that of the node it left.
C33_SwapSendsToNewNode ==
    \A t \in TaskIds :
       (/\ l_task[t].kind = "switch"
        /\ l_task[t].pc \in {"swap_voice", "swap_voice:ok", "swap_voice:err",
                             "swap_rest", "swap_rest:ok", "swap_rest:err"})
       => player[l_task[t].guild].rest = player[l_task[t].guild].node

\* C34: the body update_player transmits holds no field its caller left
\* unset, and holds, with the value None, every field the caller gave as
\* None to have it cleared (stop() clearing the track).
C34_BodyHasWhatCallerSet ==
    p_ret.op \notin {"none"}
    => /\ \A f \in DOMAIN p_ret.request.body : f \in DOMAIN p_ret.data
       /\ \A k \in DOMAIN p_ret.data :
             p_ret.data[k] = None
             => k \in DOMAIN p_ret.request.body /\ p_ret.request.body[k] = None

\* C35: every request of update_player carries the caller's noReplace as the
\* query parameter noReplace, and its body has no field for the flag.
C35_NoReplaceOnlyInQuery ==
    p_ret.op \notin {"none"}
    => /\ p_ret.noReplace # None
          => p_ret.request.query = "noReplace=" \o lower(p_ret.noReplace)
       /\ DOMAIN p_ret.request.body \cap {"noReplace", "noReplase"} = {}

\* C36: when on_voice_state_update has returned or raised, a null channel id
\* has left the player disconnected with an empty cached voice state; with a
\* channel the session id is cached, and the credentials have been sent to
\* the node by a voice update if the cached state holds both the token and
\* the session id, and only then.
C36_VoiceStateUpdate ==
    p_ret.op = "on_voice_state_update"
    => LET p == player[p_ret.guild]
       IN  IF p_ret.arg = None
           THEN ~p.is_connected /\ p.channel = None /\ p.voice = {}
           ELSE /\ "sessionId" \in p.voice
                /\ {"event", "sessionId"} \subseteq p.voice
                      => p_ret.sent >= 1 \/ p_ret.val = "NodeNotAvailable"

\* C37: every Node that has connected is the Node the registry holds under
\* its identifier: of two create_node calls for one identifier at most one
\* connects and registers.
C37_ConnectedNodeIsRegistered ==
    \A n \in NodeObjs :
       node[n].pc = "up" => \E k \in 1..Len(pool) : pool[k] = n

\* C38: after any sequence of Queue operations the current item is unset or
\* is in the queue (item in self._queue).
C38_CursorInQueue ==
    q_current = None \/ Contains(q_queue, q_current)

====
